---------------------------- MODULE Spec2Model ----------------------------
(***************************************************************************)
(* A model of the filter / sort / load layer of VariantVisualizer:         *)
(*   src/utils.py     apply_filters (= apply_filters_with_debug),          *)
(*                    find_genes_by_search_term, sort_variants             *)
(*   src/main.py      handle_column_sort and the gene-panel filter and     *)
(*                    sort blocks of update_variants_display_optimized     *)
(*   src/database.py  OptimizedParquetDB.load_variants_lazy                *)
(*                                                                         *)
(* Text values are sequences of one-character strings, so that lower-      *)
(* casing, substring search, replacement and splitting are computed and    *)
(* not assumed.  A dataframe is a sequence of rows (records).              *)
(***************************************************************************)
EXTENDS Integers, Sequences, FiniteSets, TLC

VARIABLES
    gene_mapping,     \* utils._gene_mapping: sequence of <<HGNC_ID, HGNC_symbol>>, in file order
    df,               \* the dataframe handed to the operation under study
    params,           \* the arguments of the last call
    out,              \* the value the last call returned
    prev,             \* the value returned by the call before the last one
    op,               \* the last operation that ran
    sort_state,       \* dcc.Store "sort-state"
    active_filters,   \* dcc.Store "active-filters"
    triggered,        \* callback_context.triggered of the last callback
    variants_file,    \* rows of VARIANTS_PARQUET_PATH, or NoFile
    comments_file,    \* rows of COMMENTS_PARQUET_PATH, or NoFile
    sample_index_file,\* rows of SAMPLE_INDEX_PATH, or NoFile
    db,               \* the OptimizedParquetDB instance: _last_modified, _cache, lru_cache
    clock,            \* the time of the system clock, in ticks
    panel_manager,    \* the GenePanelManager instance: panels_df, metadata
    panel_files,      \* GENE_PANELS_DB_PATH and PANEL_METADATA_PATH
    comment_modal     \* the comment dialog: is_open, selected-variant-data, the two inputs

vars == <<gene_mapping, df, params, out, prev, op, sort_state, active_filters,
          triggered, variants_file, comments_file, sample_index_file, db, clock,
          panel_manager, panel_files, comment_modal>>

---------------------------------------------------------------------------
(* Bounds of the model *)

\* longest dataframe drawn as an input
MaxRows == 2

---------------------------------------------------------------------------
(* Text: Python str / polars Utf8 operations *)

UpperLetters == <<"A", "B", "C", "D", "E", "F", "G", "H", "I", "J", "K", "L", "M", "N", "O", "P", "Q", "R", "S", "T", "U", "V", "W", "X", "Y", "Z">>

LowerLetters == <<"a", "b", "c", "d", "e", "f", "g", "h", "i", "j", "k", "l", "m", "n", "o", "p", "q", "r", "s", "t", "u", "v", "w", "x", "y", "z">>

\* the characters of the model's texts in code-point order (the order polars sorts Utf8 by)
AsciiOrder == <<" ", "&", "(", ")", ",", "-", ".", "/", "0", "1", "2", "3", "4", "5", "6", "7", "8", "9", ":", ";", "A", "B", "C", "D", "E", "F", "G", "H", "I", "J", "K", "L", "M", "N", "O", "P", "Q", "R", "S", "T", "U", "V", "W", "X", "Y", "Z", "_", "a", "b", "c", "d", "e", "f", "g", "h", "i", "j", "k", "l", "m", "n", "o", "p", "q", "r", "s", "t", "u", "v", "w", "x", "y", "z", "|">>

DigitChars == <<"0", "1", "2", "3", "4", "5", "6", "7", "8", "9">>

\* the characters of the model's texts
Chars == {AsciiOrder[i] : i \in 1..Len(AsciiOrder)}

\* code-point rank of each character
OrdOf == [c \in Chars |-> CHOOSE i \in 1..Len(AsciiOrder) : AsciiOrder[i] = c]

LowerOf ==
    [c \in Chars |->
        IF \E i \in 1..Len(UpperLetters) : UpperLetters[i] = c
        THEN LowerLetters[CHOOSE i \in 1..Len(UpperLetters) : UpperLetters[i] = c]
        ELSE c]

UpperOf ==
    [c \in Chars |->
        IF \E i \in 1..Len(LowerLetters) : LowerLetters[i] = c
        THEN UpperLetters[CHOOSE i \in 1..Len(LowerLetters) : LowerLetters[i] = c]
        ELSE c]

Ord(c) == OrdOf[c]

LowerChar(c) == LowerOf[c]

UpperChar(c) == UpperOf[c]

\* str.lower(), Expr.str.to_lowercase()
Lower(s) == [i \in 1..Len(s) |-> LowerChar(s[i])]

\* str.upper()
Upper(s) == [i \in 1..Len(s) |-> UpperChar(s[i])]

\* t occurs in s at index i
StartsAt(s, t, i) ==
    /\ i + Len(t) - 1 <= Len(s)
    /\ \A k \in 1..Len(t) : s[i + k - 1] = t[k]

\* "t in s", and Expr.str.contains(t) for a pattern t without regex metacharacters
Contains(s, t) == \E i \in 1..(Len(s) - Len(t) + 1) : StartsAt(s, t, i)

RECURSIVE Replace(_, _, _)
\* str.replace(old, new): every non-overlapping occurrence, left to right
Replace(s, old, new) ==
    IF s = <<>> THEN <<>>
    ELSE IF StartsAt(s, old, 1)
         THEN new \o Replace(SubSeq(s, Len(old) + 1, Len(s)), old, new)
         ELSE <<Head(s)>> \o Replace(Tail(s), old, new)

RECURSIVE LStrip(_)
LStrip(s) == IF s # <<>> /\ Head(s) = " " THEN LStrip(Tail(s)) ELSE s

RECURSIVE RStrip(_)
RStrip(s) == IF s # <<>> /\ s[Len(s)] = " " THEN RStrip(SubSeq(s, 1, Len(s) - 1)) ELSE s

\* str.strip()
Strip(s) == RStrip(LStrip(s))

RECURSIVE Split(_, _)
\* str.split(c), Expr.str.split(c) for a one-character separator c
Split(s, c) ==
    IF \E i \in 1..Len(s) : s[i] = c
    THEN LET i == CHOOSE j \in 1..Len(s) : s[j] = c /\ \A k \in 1..(j - 1) : s[k] # c
         IN  <<SubSeq(s, 1, i - 1)>> \o Split(SubSeq(s, i + 1, Len(s)), c)
    ELSE <<s>>

\* str.isdigit()
IsDigit(s) == s # <<>> /\ \A i \in 1..Len(s) : \E d \in 1..10 : DigitChars[d] = s[i]

DigitVal(c) == (CHOOSE d \in 1..10 : DigitChars[d] = c) - 1

RECURSIVE ToInt(_)
\* int(s) for a string of digits
ToInt(s) == IF s = <<>> THEN 0 ELSE ToInt(SubSeq(s, 1, Len(s) - 1)) * 10 + DigitVal(s[Len(s)])

RECURSIVE LexLess(_, _)
\* a < b in code-point order
LexLess(a, b) ==
    IF b = <<>> THEN FALSE
    ELSE IF a = <<>> THEN TRUE
    ELSE IF Head(a) = Head(b) THEN LexLess(Tail(a), Tail(b))
    ELSE Ord(Head(a)) < Ord(Head(b))

\* the elements of a sequence
Range(s) == {s[i] : i \in 1..Len(s)}

\* s[:n]
Take(s, n) == SubSeq(s, 1, IF n < Len(s) THEN n ELSE Len(s))

\* every sequence over S of length at most n
SeqsUpTo(S, n) == UNION {[1..k -> S] : k \in 0..n}

\* DataFrame.filter(pred): the rows satisfying pred, in their order
Filter(rows, pred(_)) == SelectSeq(rows, pred)

---------------------------------------------------------------------------
(* Text literals of the source *)

T_chr == <<"c", "h", "r">>
T_chromosome == <<"c", "h", "r", "o", "m", "o", "s", "o", "m", "e">>
T_all == <<"a", "l", "l">>
T_het == <<"h", "e", "t">>
T_hom_alt == <<"h", "o", "m", "_", "a", "l", "t">>
T_hom_ref == <<"h", "o", "m", "_", "r", "e", "f">>
T_frameshift_variant == <<"f", "r", "a", "m", "e", "s", "h", "i", "f", "t", "_", "v", "a", "r", "i", "a", "n", "t">>
T_stop_gained == <<"s", "t", "o", "p", "_", "g", "a", "i", "n", "e", "d">>
T_stopgain == <<"s", "t", "o", "p", "g", "a", "i", "n">>
T_stop_lost == <<"s", "t", "o", "p", "_", "l", "o", "s", "t">>
T_missense_variant == <<"m", "i", "s", "s", "e", "n", "s", "e", "_", "v", "a", "r", "i", "a", "n", "t">>
T_Pathogenic == <<"P", "a", "t", "h", "o", "g", "e", "n", "i", "c">>
T_Likely_pathogenic == <<"L", "i", "k", "e", "l", "y", " ", "p", "a", "t", "h", "o", "g", "e", "n", "i", "c">>
T_Benign == <<"B", "e", "n", "i", "g", "n">>

\* the genotype strings of the heterozygous class
GT_het == {<<"0", "/", "1">>, <<"1", "/", "0">>, <<"0", "|", "1">>, <<"1", "|", "0">>}

\* the genotype strings of the homozygous-alt class
GT_hom_alt == {<<"1", "/", "1">>, <<"1", "|", "1">>}

\* the genotype strings of the homozygous-ref class
GT_hom_ref == {<<"0", "/", "0">>, <<"0", "|", "0">>}

\* the genotype strings of the "homozygous" preset
GT_homozygous == {<<"1", "/", "1">>, <<"1", "|", "1">>, <<"0", "/", "0">>, <<"0", "|", "0">>}

\* the consequences of the "high_impact" preset
HighImpact == {T_frameshift_variant, T_stop_gained, T_stopgain, T_stop_lost}

\* the clinvar_sig values of the "pathogenic" preset
PathogenicSigs == {T_Pathogenic, T_Likely_pathogenic}

\* the preset toggles apply_filters reads
PresetIds == {"high_impact", "pathogenic", "heterozygous", "homozygous"}

\* dict.get(k) used as a condition: the key is present with a truthy value
Get(d, k) == k \in DOMAIN d /\ d[k]

---------------------------------------------------------------------------
(* Gene identifier / symbol resolver (src/utils.py) *)

\* load_gene_mapping(): the process-wide mapping, loaded once
load_gene_mapping == gene_mapping

\* the search term matches mapping entry e = <<gene_id, gene_name>>
GeneEntryMatches(e, search_lower) ==
    \/ Contains(Lower(e[2]), search_lower)
    \/ Contains(Lower(e[1]), search_lower)

\* find_genes_by_search_term(search_term): the matching entries in mapping
\* order; matching_ids is the first and matching_names the second component
find_genes_by_search_term(search_term) ==
    IF search_term = <<>> \/ Strip(search_term) = <<>> THEN <<>>
    ELSE LET search_lower == Lower(Strip(search_term))
         IN  Filter(load_gene_mapping, LAMBDA e : GeneEntryMatches(e, search_lower))

matching_gene_ids(search_term) ==
    LET m == find_genes_by_search_term(search_term) IN [i \in 1..Len(m) |-> m[i][1]]

matching_gene_names(search_term) ==
    LET m == find_genes_by_search_term(search_term) IN [i \in 1..Len(m) |-> m[i][2]]

---------------------------------------------------------------------------
(* apply_filters (src/utils.py) *)

\* how many of the matching ids / names get a substring condition
ContainsTested == 3

RECURSIVE SampleFilter_RemoveInLoop(_, _)
\* SampleFilter, removing the unselected rows from the list while iterating over
\* it: the row after each removed row is skipped
SampleFilter_RemoveInLoop(rows, selected_samples) ==
    IF selected_samples = {} \/ rows = <<>> THEN rows
    ELSE IF Head(rows).SAMPLE \in selected_samples
         THEN <<Head(rows)>> \o SampleFilter_RemoveInLoop(Tail(rows), selected_samples)
    ELSE IF Tail(rows) = <<>> THEN <<>>
    ELSE <<Head(Tail(rows))>> \o SampleFilter_RemoveInLoop(Tail(Tail(rows)), selected_samples)

\* sample filter
SampleFilter(rows, selected_samples) ==
    IF selected_samples # {}
    THEN Filter(rows, LAMBDA r : r.SAMPLE \in selected_samples)
    ELSE rows

\* chromosome filter
ChromosomeFilter(rows, chromosome_filter) ==
    IF chromosome_filter # <<>> /\ chromosome_filter # T_all
    THEN Filter(rows, LAMBDA r : r.CHROM = chromosome_filter)
    ELSE rows

\* GenotypeFilter with the heterozygous class also accepting the homozygous-alt strings
GenotypeFilter_HetTooWide(rows, genotype_filter) ==
    IF genotype_filter # <<>> /\ genotype_filter # T_all
    THEN IF genotype_filter = T_het THEN Filter(rows, LAMBDA r : r.GT \in GT_het \cup GT_hom_alt)
         ELSE IF genotype_filter = T_hom_alt THEN Filter(rows, LAMBDA r : r.GT \in GT_hom_alt)
         ELSE IF genotype_filter = T_hom_ref THEN Filter(rows, LAMBDA r : r.GT \in GT_hom_ref)
         ELSE rows
    ELSE rows

\* genotype filter
GenotypeFilter(rows, genotype_filter) ==
    IF genotype_filter # <<>> /\ genotype_filter # T_all
    THEN IF genotype_filter = T_het THEN Filter(rows, LAMBDA r : r.GT \in GT_het)
         ELSE IF genotype_filter = T_hom_alt THEN Filter(rows, LAMBDA r : r.GT \in GT_hom_alt)
         ELSE IF genotype_filter = T_hom_ref THEN Filter(rows, LAMBDA r : r.GT \in GT_hom_ref)
         ELSE rows
    ELSE rows

\* 3. chromosome search conditions
ChromSearch(r, search_lower) ==
    LET chrom_search == Strip(Replace(Replace(search_lower, T_chr, <<>>), T_chromosome, <<>>))
    IN  /\ chrom_search # <<>>
        /\ \/ Lower(r.CHROM) = chrom_search
           \/ Contains(Lower(r.CHROM), chrom_search)

\* 4. position search conditions: exact position, and chr:pos
PosSearch(r, search_term) ==
    \/ IsDigit(search_term) /\ r.POS = ToInt(search_term)
    \/ /\ Contains(search_term, <<":">>)
       /\ LET parts == Split(search_term, ":")
              chrom_part == Lower(Strip(Replace(parts[1], T_chr, <<>>)))
              pos_part == Strip(parts[2])
          IN  /\ IsDigit(pos_part)
              /\ Lower(r.CHROM) = chrom_part
              /\ r.POS = ToInt(pos_part)

\* 5. gene search conditions: the gene field itself, then the mapping's ids and names
GeneSearch(r, search_term, search_lower) ==
    \/ Contains(Lower(r.gene), search_lower)
    \/ /\ load_gene_mapping # <<>>
       /\ LET ids == matching_gene_ids(search_term)
              names == matching_gene_names(search_term)
          IN  \/ r.gene \in Range(ids)
              \/ \E g \in Range(Take(ids, ContainsTested)) : Contains(r.gene, g)
              \/ r.gene \in Range(names)
              \/ \E g \in Range(Take(names, ContainsTested)) : Contains(r.gene, g)

\* combined_search: the OR of every search condition
SearchMatches(r, search_term) ==
    LET search_lower == Lower(Strip(search_term))
    IN  \/ Contains(Lower(r.SAMPLE), search_lower)
        \/ Contains(Lower(r.consequence), search_lower)
        \/ ChromSearch(r, search_lower)
        \/ PosSearch(r, search_term)
        \/ GeneSearch(r, search_term, search_lower)

\* search filter
SearchFilter(rows, search_term) ==
    IF search_term # <<>> /\ Strip(search_term) # <<>>
    THEN Filter(rows, LAMBDA r : SearchMatches(r, search_term))
    ELSE rows

\* PresetFilters as an if / elif chain: only the first active preset is applied
PresetFilters_FirstOnly(rows, filters) ==
    IF Get(filters, "high_impact") THEN Filter(rows, LAMBDA r : r.consequence \in HighImpact)
    ELSE IF Get(filters, "pathogenic") THEN Filter(rows, LAMBDA r : r.clinvar_sig \in PathogenicSigs)
    ELSE IF Get(filters, "heterozygous") THEN Filter(rows, LAMBDA r : r.GT \in GT_het)
    ELSE IF Get(filters, "homozygous") THEN Filter(rows, LAMBDA r : r.GT \in GT_homozygous)
    ELSE rows

\* preset filters, one after the other
PresetFilters(rows, filters) ==
    LET d1 == IF Get(filters, "high_impact")
              THEN Filter(rows, LAMBDA r : r.consequence \in HighImpact) ELSE rows
        d2 == IF Get(filters, "pathogenic")
              THEN Filter(d1, LAMBDA r : r.clinvar_sig \in PathogenicSigs) ELSE d1
        d3 == IF Get(filters, "heterozygous")
              THEN Filter(d2, LAMBDA r : r.GT \in GT_het) ELSE d2
        d4 == IF Get(filters, "homozygous")
              THEN Filter(d3, LAMBDA r : r.GT \in GT_homozygous) ELSE d3
    IN  d4

\* apply_filters_with_debug(df, search_term, genotype_filter, chromosome_filter,
\*                          active_filters, selected_samples); apply_filters is this function
apply_filters_with_debug(rows, P) ==
    IF Len(rows) = 0 THEN rows
    ELSE PresetFilters(
           SearchFilter(
             GenotypeFilter(
               ChromosomeFilter(
                 SampleFilter(rows, P.selected_samples),
                 P.chromosome_filter),
               P.genotype_filter),
             P.search_term),
           P.active_filters)

apply_filters(rows, P) == apply_filters_with_debug(rows, P)

\* get_gene_name_from_id(gene_id): the symbol of a mapped identifier, else the input
get_gene_name_from_id(gene_id) ==
    IF gene_id = <<>> THEN <<"U", "N", "K", "N", "O", "W", "N">>
    ELSE IF gene_id = <<"U", "N", "K", "N", "O", "W", "N">> THEN gene_id
    ELSE IF \E i \in 1..Len(load_gene_mapping) : load_gene_mapping[i][1] = gene_id
         THEN load_gene_mapping[CHOOSE i \in 1..Len(load_gene_mapping) :
                                   load_gene_mapping[i][1] = gene_id][2]
         ELSE gene_id

\* the separators create_gene_link tries, in its order (the one-character ones)
gene_separators == <<",", ";", "|", "/", "&">>

\* create_gene_link's reading of a gene field: split on the first separator of
\* gene_separators the field holds, each part stripped, empty parts dropped
GeneTokens(gene) ==
    IF \E k \in 1..Len(gene_separators) : Contains(gene, <<gene_separators[k]>>)
    THEN LET k == CHOOSE j \in 1..Len(gene_separators) :
                     /\ Contains(gene, <<gene_separators[j]>>)
                     /\ \A h \in 1..(j - 1) : ~Contains(gene, <<gene_separators[h]>>)
             parts == Split(gene, gene_separators[k])
         IN  {Strip(parts[i]) : i \in 1..Len(parts)} \ {<<>>}
    ELSE {gene}

---------------------------------------------------------------------------
(* Inputs *)

Row(s, c, p, gt, g, cons, clin) ==
    [SAMPLE |-> s, CHROM |-> c, POS |-> p, GT |-> gt, gene |-> g,
     consequence |-> cons, clinvar_sig |-> clin, VAF |-> 50]

S1 == <<"S", "1">>
S2 == <<"S", "2">>

\* symbol.tsv: HGNC_ID, HGNC_symbol
GeneTable ==
    << <<<<"1">>, <<"A", "B">>>>,
       <<<<"2">>, <<"A", "B", "C">>>>,
       <<<<"3">>, <<"X", "A", "B">>>>,
       <<<<"4">>, <<"B", "A", "B">>>>,
       <<<<"5">>, <<"C", "D">>>>,
       <<<<"6">>, <<"a", "b", "d">>>> >>

\* the most entries of GeneTable a drawn mapping holds
MaxGenes == 5

GeneMappings == {Take(GeneTable, k) : k \in 0..MaxGenes}

\* rows for the filter engine: two samples, two chromosomes, every genotype class
FilterRows ==
    { Row(S1, <<"1">>, 100, <<"0", "/", "1">>, <<"1">>, T_stop_gained, T_Pathogenic),
      Row(S1, <<"1">>, 200, <<"1", "|", "0">>, <<"2">>, T_missense_variant, T_Benign),
      Row(S1, <<"X">>, 100, <<".", "/", ".">>, <<"1", ",", "2">>, T_stop_gained, T_Likely_pathogenic),
      Row(S2, <<"1">>, 100, <<"0", "|", "1">>, <<"2">>, T_frameshift_variant, T_Pathogenic),
      Row(S2, <<"X">>, 300, <<"0", "/", "0">>, <<"1">>, T_missense_variant, T_Benign),
      Row(S1, <<"1">>, 300, <<"1", "/", "1">>, <<"5">>, T_stop_lost, T_Pathogenic) }

\* every dict of preset toggles handle_preset_filters can store
PresetDicts == UNION {[K -> {TRUE}] : K \in SUBSET PresetIds}

NoFilters == [k \in {} |-> TRUE]

FilterParams ==
    [search_term : {<<>>, <<"S", "T", "O", "P">>, <<"1", ":", "1", "0", "0">>},
     genotype_filter : {<<>>, T_all, T_het, T_hom_alt},
     chromosome_filter : {<<>>, T_all, <<"1">>},
     active_filters : PresetDicts,
     selected_samples : {{}, {S1}}]

\* rows for the free-text search: one sample, one locus, differing in the gene field
GeneRow(g) == Row(S1, <<"7">>, 500, <<"0", "/", "1">>, g, T_missense_variant, T_Benign)

SearchRows ==
    { GeneRow(<<"1">>), GeneRow(<<"4">>), GeneRow(<<"4", ",", "5">>),
      GeneRow(<<"5", ";", "2">>), GeneRow(<<"5">>), GeneRow(<<"X", "A", "B">>) }

SearchParams ==
    [search_term : {<<"a", "b">>, <<" ", "A", "B", " ">>, <<"c", "d">>, <<"4">>, <<"x", "a">>},
     genotype_filter : {<<>>},
     chromosome_filter : {<<>>},
     active_filters : {NoFilters},
     selected_samples : {{}}]

NoParams == [none |-> TRUE]

NoFile == [exists |-> FALSE]

\* the values of the variables an operation under study does not touch
IdleUI ==
    /\ sort_state = [column |-> "None", direction |-> "asc"]
    /\ active_filters = NoFilters
    /\ triggered = [callback |-> "none", clicked |-> FALSE, id |-> "None"]

\* OptimizedParquetDB.__init__: no modification time seen, nothing cached.
\* A modification time is a tick count from 1; 0 stands for None.
NewDB == [last_modified |-> 0, cache |-> <<>>, samples_lru |-> <<>>]

\* the database object before any call, and no sample index
\* GenePanelManager.__init__ with no cached panels and no internal panels
\* directory, and the comment dialog closed
IdlePanels ==
    /\ panel_manager = [panels_df |-> <<>>, metadata |-> [last_update |-> 0]]
    /\ panel_files = [panels |-> NoFile, metadata |-> NoFile]
    /\ comment_modal = [is_open |-> FALSE, selected |-> <<>>, comment_text |-> <<>>,
                        user_name |-> <<>>]

IdleDB ==
    /\ sample_index_file = NoFile
    /\ db = NewDB
    /\ clock = 1
    /\ IdlePanels

IdleStore ==
    /\ variants_file = NoFile
    /\ comments_file = NoFile
    /\ IdleDB

---------------------------------------------------------------------------
(* The filter engine called on a dataframe, and called again on its own result *)

CallApplyFilters(P) ==
    /\ op = "init"
    /\ params' = P
    /\ out' = apply_filters(df, P)
    /\ prev' = out
    /\ op' = "apply_filters"
    /\ UNCHANGED <<gene_mapping, df, sort_state, active_filters, triggered,
                   variants_file, comments_file,
                   sample_index_file, db, clock,
                   panel_manager, panel_files, comment_modal>>

CallApplyFiltersAgain ==
    /\ op = "apply_filters"
    /\ out' = apply_filters(out, params)
    /\ prev' = out
    /\ op' = "apply_filters_again"
    /\ UNCHANGED <<gene_mapping, df, params, sort_state, active_filters, triggered,
                   variants_file, comments_file,
                   sample_index_file, db, clock,
                   panel_manager, panel_files, comment_modal>>

InitFilter ==
    /\ gene_mapping = Take(GeneTable, 2)
    /\ df \in SeqsUpTo(FilterRows, MaxRows)
    /\ params = NoParams
    /\ out = <<>>
    /\ prev = <<>>
    /\ op = "init"
    /\ IdleUI
    /\ IdleStore

NextFilter ==
    \/ \E P \in FilterParams : CallApplyFilters(P)
    \/ CallApplyFiltersAgain

SpecFilter == InitFilter /\ [][NextFilter]_vars

InitSearch ==
    /\ gene_mapping \in GeneMappings
    /\ df \in SeqsUpTo(SearchRows, MaxRows)
    /\ params = NoParams
    /\ out = <<>>
    /\ prev = <<>>
    /\ op = "init"
    /\ IdleUI
    /\ IdleStore

NextSearch ==
    \/ \E P \in SearchParams : CallApplyFilters(P)
    \/ CallApplyFiltersAgain

SpecSearch == InitSearch /\ [][NextSearch]_vars

---------------------------------------------------------------------------
(* Properties of the filter engine *)

\* C1: apply_filters is idempotent: applied with the same parameters to its own
\* output it returns the same rows in the same order.
C1_ApplyFiltersIdempotent == op = "apply_filters_again" => out = prev

\* a second application to a result that the first application had narrowed
C1_Witness ==
    /\ op = "apply_filters_again"
    /\ Len(df) = 2
    /\ Len(prev) = 1
    /\ params.search_term # <<>>
    /\ params.selected_samples # {}
    /\ DOMAIN params.active_filters # {}

PresetPredicate(id, r) ==
    CASE id = "high_impact" -> r.consequence \in HighImpact
      [] id = "pathogenic" -> r.clinvar_sig \in PathogenicSigs
      [] id = "heterozygous" -> r.GT \in GT_het
      [] id = "homozygous" -> r.GT \in GT_homozygous

\* C4: the presets are AND-combined: the output is exactly the rows that pass
\* the sample / chromosome / genotype / search steps and satisfy the predicate
\* of every active preset, whatever the genotype_filter is.
C4_PresetsAndCombined ==
    op = "apply_filters" =>
        out = Filter(apply_filters(df, [params EXCEPT !.active_filters = NoFilters]),
                     LAMBDA r : \A id \in PresetIds :
                                   Get(params.active_filters, id) => PresetPredicate(id, r))

\* two presets and a genotype_filter active at once, a row kept and a row dropped by a preset
C4_Witness ==
    /\ op = "apply_filters"
    /\ params.genotype_filter = T_het
    /\ Get(params.active_filters, "pathogenic")
    /\ Get(params.active_filters, "heterozygous")
    /\ Len(out) = 1
    /\ Len(apply_filters(df, [params EXCEPT !.active_filters = NoFilters])) = 2

\* a gene identifier held by the row's gene field resolves to a symbol containing the term
ResolvesToMatch(r, search_term) ==
    \E g \in GeneTokens(r.gene) :
        Contains(Lower(get_gene_name_from_id(g)), Lower(Strip(search_term)))

\* C3: the free-text search retains every row whose multi-gene field holds an
\* identifier that resolves to a symbol containing the search term, however
\* many identifiers the term's reverse lookup matches.
C3_MultiGeneSearchRetained ==
    op = "apply_filters" =>
        \A i \in 1..Len(df) :
            ResolvesToMatch(df[i], params.search_term) => df[i] \in Range(out)

---------------------------------------------------------------------------
(* The gene-panel filter of update_variants_display_optimized (src/main.py) *)

\* reverse_mapping = {v.upper(): k for k, v in gene_mapping.items()}: of the
\* entries with the same upper-cased symbol the last one wins
reverse_mapping(g_upper) ==
    LET hits == {i \in 1..Len(load_gene_mapping) : Upper(load_gene_mapping[i][2]) = g_upper}
    IN  load_gene_mapping[CHOOSE i \in hits : \A j \in hits : j <= i][1]

\* panel_ids: a panel gene that is a known symbol becomes its HGNC_ID, any
\* other one is kept, upper-cased
panel_ids(panel_genes) ==
    { IF \E i \in 1..Len(load_gene_mapping) : Upper(load_gene_mapping[i][2]) = Upper(g)
      THEN reverse_mapping(Upper(g))
      ELSE Upper(g) : g \in panel_genes }

\* the filter with the gene field tested for the identifier as a substring
GenePanelFilter_Substring(rows, panel_genes) ==
    IF panel_genes = {} THEN rows
    ELSE Filter(rows, LAMBDA r : \E g \in panel_ids(panel_genes) : Contains(r.gene, g))

\* "FILTRE PANEL DE GENES": the rows whose gene field, split on ",", lists a panel id
GenePanelFilter(rows, panel_genes) ==
    IF panel_genes = {} THEN rows
    ELSE Filter(rows, LAMBDA r : \E g \in panel_ids(panel_genes) :
                                     g \in Range(Split(r.gene, ",")))

PanelRows ==
    { GeneRow(<<"1", "2", "3", ",", "4", "5", "6">>),
      GeneRow(<<"1", "2", "3", ";", "4", "5", "6">>),
      GeneRow(<<"4", "5", "6">>),
      GeneRow(<<"1", "2">>),
      GeneRow(<<"1">>) }

\* entries of the "panel-genes" store: identifiers, a known symbol, an unknown symbol
PanelGenes == {<<"4", "5", "6">>, <<"1", "2">>, <<"a", "b">>, <<"b", "r", "c", "a">>}

\* the panel step of the handler run on the loaded frame df; the handler goes on
\* to its other filters with the frame this step leaves
CallGenePanelFilter(panel_genes) ==
    /\ op = "init"
    /\ params' = [panel_genes |-> panel_genes]
    /\ out' = GenePanelFilter(df, panel_genes)
    /\ prev' = out
    /\ op' = "gene_panel_filter"
    /\ UNCHANGED <<gene_mapping, df, sort_state, active_filters, triggered,
                   variants_file, comments_file,
                   sample_index_file, db, clock,
                   panel_manager, panel_files, comment_modal>>

InitPanel ==
    /\ gene_mapping \in GeneMappings
    /\ df \in SeqsUpTo(PanelRows, MaxRows)
    /\ params = NoParams
    /\ out = <<>>
    /\ prev = <<>>
    /\ op = "init"
    /\ IdleUI
    /\ IdleStore

NextPanel == \E panel_genes \in SUBSET PanelGenes : CallGenePanelFilter(panel_genes)

SpecPanel == InitPanel /\ [][NextPanel]_vars

\* id stands in the field as a whole comma-delimited token
OccursAsToken(field, id) ==
    /\ ~Contains(id, <<",">>)
    /\ \E i \in 1..Len(field) :
          /\ StartsAt(field, id, i)
          /\ i = 1 \/ field[i - 1] = ","
          /\ i + Len(id) - 1 = Len(field) \/ field[i + Len(id)] = ","

\* C5: the gene-panel filter is token-exact: a row is retained if and only if
\* one of the comma-separated tokens of its gene field equals a resolved panel
\* identifier; "123,456" is retained for {"456"} and not for {"12"}.
C5_PanelFilterTokenExact ==
    (op = "gene_panel_filter" /\ params.panel_genes # {}) =>
        /\ out = Filter(df, LAMBDA r : \E id \in panel_ids(params.panel_genes) :
                                          OccursAsToken(r.gene, id))
        /\ \A i \in 1..Len(df) :
              df[i].gene = <<"1", "2", "3", ",", "4", "5", "6">> =>
                 /\ params.panel_genes = {<<"4", "5", "6">>} => df[i] \in Range(out)
                 /\ params.panel_genes = {<<"1", "2">>} => df[i] \notin Range(out)

\* the field "123,456" dropped for the panel gene set {"12"}, the row "12" kept
C5_Witness ==
    /\ op = "gene_panel_filter"
    /\ params.panel_genes = {<<"1", "2">>}
    /\ Len(df) = 2
    /\ df[1].gene = <<"1", "2", "3", ",", "4", "5", "6">>
    /\ out = <<GeneRow(<<"1", "2">>)>>

---------------------------------------------------------------------------
(* Sorting: the sort block of update_variants_display_optimized (src/main.py)
   and sort_variants (src/utils.py) *)

\* the key of a row whose CHROM does not cast to Int32 (cast with strict=False gives null)
NullKey == -1

\* chrom_numeric: X, Y, MT are 23, 24, 25; any other CHROM is cast to an integer
chrom_numeric(r) ==
    IF r.CHROM = <<"X">> THEN 23
    ELSE IF r.CHROM = <<"Y">> THEN 24
    ELSE IF r.CHROM = <<"M", "T">> THEN 25
    ELSE IF IsDigit(r.CHROM) THEN ToInt(r.CHROM)
    ELSE NullKey

\* integer key a sorts strictly before b; nulls sort first in both directions
IntBefore(a, b, descending) ==
    IF a = NullKey \/ b = NullKey THEN a = NullKey /\ b # NullKey
    ELSE IF descending THEN a > b ELSE a < b

\* Utf8 key a sorts strictly before b
TextBefore(a, b, descending) == IF descending THEN LexLess(b, a) ELSE LexLess(a, b)

\* convert_gene_ids_to_symbols(gene_str): the symbol of the first gene listed
convert_gene_ids_to_symbols(gene_str) ==
    IF gene_str = <<>> \/ gene_str = <<"U", "N", "K", "N", "O", "W", "N">>
    THEN <<"U", "N", "K", "N", "O", "W", "N">>
    ELSE LET parts == Split(gene_str, ",")
             genes == SelectSeq([i \in 1..Len(parts) |-> Strip(parts[i])], LAMBDA g : g # <<>>)
         IN  IF genes = <<>> THEN <<"U", "N", "K", "N", "O", "W", "N">>
             ELSE IF \E i \in 1..Len(load_gene_mapping) : load_gene_mapping[i][1] = genes[1]
                  THEN load_gene_mapping[CHOOSE i \in 1..Len(load_gene_mapping) :
                                            load_gene_mapping[i][1] = genes[1]][2]
                  ELSE genes[1]

\* df.sort(['chrom_numeric', 'POS'], descending=[d, d]): a sorts strictly before b
PositionBefore(a, b, descending) ==
    \/ IntBefore(chrom_numeric(a), chrom_numeric(b), descending)
    \/ chrom_numeric(a) = chrom_numeric(b) /\ IntBefore(a.POS, b.POS, descending)

\* the columns the sort block of the display handler sorts by, of the columns
\* a row of the model has ("moi" and "gnomad_af" sort by columns it does not have)
SortColumns == {"sample", "position", "gene", "genotype", "vaf", "consequence", "clinvar"}

\* row a sorts strictly before row b under the display handler's sort of the column
HandlerBefore(column, a, b, descending) ==
    CASE column = "sample" -> TextBefore(a.SAMPLE, b.SAMPLE, descending)
      [] column = "position" -> PositionBefore(a, b, descending)
      [] column = "gene" -> TextBefore(convert_gene_ids_to_symbols(a.gene),
                                       convert_gene_ids_to_symbols(b.gene), descending)
      [] column = "genotype" -> TextBefore(a.GT, b.GT, descending)
      [] column = "vaf" -> IntBefore(a.VAF, b.VAF, descending)
      [] column = "consequence" -> TextBefore(a.consequence, b.consequence, descending)
      [] column = "clinvar" -> TextBefore(a.clinvar_sig, b.clinvar_sig, descending)
      [] OTHER -> FALSE

\* the sort_by values sort_variants knows
SortByValues == {"position", "gene", "consequence", "clinvar", "vaf"}

\* row a sorts strictly before row b under sort_variants(df, sort_by, ascending)
SortVariantsBefore(sort_by, a, b, descending) ==
    CASE sort_by = "position" -> PositionBefore(a, b, descending)
      [] sort_by = "gene" -> TextBefore(a.gene, b.gene, descending)
      [] sort_by = "consequence" -> TextBefore(a.consequence, b.consequence, descending)
      [] sort_by = "clinvar" -> TextBefore(a.clinvar_sig, b.clinvar_sig, descending)
      [] sort_by = "vaf" -> IntBefore(a.VAF, b.VAF, descending)
      [] OTHER -> FALSE

\* the orders of 1..n
Orders(n) == {f \in [1..n -> 1..n] : \A i, j \in 1..n : f[i] = f[j] => i = j}

\* DataFrame.sort(..., maintain_order=False): every arrangement of the rows in
\* which no row stands before one that sorts strictly before it; polars leaves
\* the order of rows with equal keys open
SortOutcomes(rows, before(_, _)) ==
    { [i \in 1..Len(rows) |-> rows[f[i]]] :
        f \in {g \in Orders(Len(rows)) :
                 \A i, j \in 1..Len(rows) : i < j => ~before(rows[g[j]], rows[g[i]])} }

\* the outcomes of the display handler's sort block for a sort_state
HandlerSortOutcomes(rows, state) ==
    IF state.column \notin SortColumns THEN {rows}
    ELSE SortOutcomes(rows, LAMBDA a, b : HandlerBefore(state.column, a, b,
                                                        state.direction # "asc"))

\* the outcomes of sort_variants(df, sort_by, ascending)
sort_variants(rows, sort_by, ascending) ==
    IF sort_by \notin SortByValues THEN {rows}
    ELSE SortOutcomes(rows, LAMBDA a, b : SortVariantsBefore(sort_by, a, b, ~ascending))

\* symbol.tsv of the gene-sort example: "1" -> "ZZZ", "2" -> "AAA"
SortGeneTable == << <<<<"1">>, <<"Z", "Z", "Z">>>>, <<<<"2">>, <<"A", "A", "A">>>> >>

SortRow(s, c, p, g) == Row(s, c, p, <<"0", "/", "1">>, g, T_missense_variant, T_Benign)

\* rows on numeric chromosomes, X, Y and MT; the first and the last tie on every key but SAMPLE
SortRows ==
    { SortRow(S1, <<"1">>, 100, <<"1">>),
      SortRow(S2, <<"2">>, 50, <<"2">>),
      SortRow(S1, <<"X">>, 10, <<"2", ",", "1">>),
      SortRow(S1, <<"Y">>, 5, <<"1">>),
      SortRow(S2, <<"M", "T">>, 1, <<"2">>),
      SortRow(S2, <<"1">>, 100, <<"1">>) }

SortStates == [column : SortColumns \cup {"None"}, direction : {"asc", "desc"}]

\* the sort block of the handler run on the filtered frame df
CallHandlerSort(state) ==
    /\ op = "init"
    /\ params' = [sort_state |-> state]
    /\ out' \in HandlerSortOutcomes(df, state)
    /\ prev' = out
    /\ op' = "handler_sort"
    /\ UNCHANGED <<gene_mapping, df, sort_state, active_filters, triggered,
                   variants_file, comments_file,
                   sample_index_file, db, clock,
                   panel_manager, panel_files, comment_modal>>

\* utils.sort_variants(df, sort_by, ascending)
CallSortVariants(sort_by, ascending) ==
    /\ op = "init"
    /\ params' = [sort_by |-> sort_by, ascending |-> ascending]
    /\ out' \in sort_variants(df, sort_by, ascending)
    /\ prev' = out
    /\ op' = "sort_variants"
    /\ UNCHANGED <<gene_mapping, df, sort_state, active_filters, triggered,
                   variants_file, comments_file,
                   sample_index_file, db, clock,
                   panel_manager, panel_files, comment_modal>>

\* the same sort invoked a second time on the same dataframe
CallSortAgain ==
    /\ op \in {"handler_sort", "sort_variants"}
    /\ out' \in IF op = "handler_sort"
                THEN HandlerSortOutcomes(df, params.sort_state)
                ELSE sort_variants(df, params.sort_by, params.ascending)
    /\ prev' = out
    /\ op' = IF op = "handler_sort" THEN "handler_sort_again" ELSE "sort_variants_again"
    /\ UNCHANGED <<gene_mapping, df, params, sort_state, active_filters, triggered,
                   variants_file, comments_file,
                   sample_index_file, db, clock,
                   panel_manager, panel_files, comment_modal>>

InitSort ==
    /\ gene_mapping \in {<<>>, SortGeneTable}
    /\ df \in SeqsUpTo(SortRows, MaxRows)
    /\ params = NoParams
    /\ out = <<>>
    /\ prev = <<>>
    /\ op = "init"
    /\ IdleUI
    /\ IdleStore

NextSort ==
    \/ \E state \in SortStates : CallHandlerSort(state)
    \/ \E sort_by \in SortByValues \cup {"sample"}, ascending \in BOOLEAN :
          CallSortVariants(sort_by, ascending)
    \/ CallSortAgain

SpecSort == InitSort /\ [][NextSort]_vars

\* the last call sorted by the given key, in the given direction
SortedBy(key, descending) ==
    \/ /\ op = "handler_sort"
       /\ params.sort_state.column = key
       /\ (params.sort_state.direction # "asc") = descending
    \/ /\ op = "sort_variants"
       /\ params.sort_by = key
       /\ params.ascending = ~descending

\* the row is on a numeric chromosome
IsNumericChrom(r) == IsDigit(r.CHROM)

\* C6: a descending position sort over rows on numeric chromosomes, X, Y and MT
\* places every X and Y row after all numeric-chromosome rows, and MT rows last.
C6_PositionDescendingChromOrder ==
    SortedBy("position", TRUE) =>
        \A i, j \in 1..Len(out) :
            i < j => /\ IsNumericChrom(out[j]) => IsNumericChrom(out[i])
                     /\ out[i].CHROM = <<"M", "T">> => out[j].CHROM = <<"M", "T">>

\* the symbol the first gene identifier listed in the row resolves to
FirstGeneSymbol(r) == get_gene_name_from_id(Strip(Split(r.gene, ",")[1]))

\* C7: an ascending gene sort orders the rows by the symbol their first listed
\* gene identifier resolves to, not by the raw identifier: with "1" -> "ZZZ"
\* and "2" -> "AAA" the row with identifier "2" comes before the row with "1".
C7_GeneSortBySymbol ==
    SortedBy("gene", FALSE) =>
        \A i, j \in 1..Len(out) :
            i < j => ~LexLess(FirstGeneSymbol(out[j]), FirstGeneSymbol(out[i]))

\* rows a and b tie on the key of the last sort
TieOnKey(a, b) ==
    IF op \in {"handler_sort", "handler_sort_again"}
    THEN LET d == params.sort_state.direction # "asc"
             c == params.sort_state.column
         IN  c \in SortColumns /\ ~HandlerBefore(c, a, b, d) /\ ~HandlerBefore(c, b, a, d)
    ELSE LET d == ~params.ascending
             c == params.sort_by
         IN  c \in SortByValues /\ ~SortVariantsBefore(c, a, b, d) /\ ~SortVariantsBefore(c, b, a, d)

\* C8: sorting is deterministic and stable: two invocations on the same rows
\* with the same parameters return the same order, and rows that tie on the
\* active sort key keep their original relative order.
C8_SortDeterministicStable ==
    /\ op \in {"handler_sort_again", "sort_variants_again"} => out = prev
    /\ op \in {"handler_sort", "sort_variants"} =>
          \E f \in Orders(Len(df)) :
              /\ out = [i \in 1..Len(df) |-> df[f[i]]]
              /\ \A i, j \in 1..Len(df) :
                    (i < j /\ TieOnKey(df[f[i]], df[f[j]])) => f[i] < f[j]

---------------------------------------------------------------------------
(* The sort-state and active-filters stores and their callbacks (src/main.py) *)

\* the column ids a sort header can carry: the columns the sort block tests for
HeaderColumns == SortColumns \cup {"moi", "gnomad_af"}

\* the initial data of the "sort-state" store, and what the reset callbacks return
InitialSortState == [column |-> "None", direction |-> "asc"]

\* handle_column_sort with every direction reset to ascending, same column or not
handle_column_sort_NoToggle(clicked_column, current_sort) ==
    [column |-> clicked_column, direction |-> "asc"]

\* handle_column_sort(n_clicks_list, current_sort) for a click on clicked_column
handle_column_sort(clicked_column, current_sort) ==
    LET new_direction ==
            IF current_sort.column = clicked_column
            THEN IF current_sort.direction = "asc" THEN "desc" ELSE "asc"
            ELSE "asc"
    IN  [column |-> clicked_column, direction |-> new_direction]

\* handle_preset_filters with the presets made exclusive: the clicked one replaces the others
handle_preset_filters_Exclusive(filter_id, current_filters) ==
    IF Get(current_filters, filter_id) THEN NoFilters ELSE [k \in {filter_id} |-> TRUE]

\* handle_preset_filters(n_clicks_list, current_filters) for a click on filter_id
handle_preset_filters(filter_id, current_filters) ==
    IF Get(current_filters, filter_id)
    THEN [k \in DOMAIN current_filters \ {filter_id} |-> current_filters[k]]
    ELSE [k \in DOMAIN current_filters \cup {filter_id} |->
             IF k = filter_id THEN TRUE ELSE current_filters[k]]

\* a sort header is clicked
ClickSortHeader(clicked_column) ==
    /\ triggered' = [callback |-> "handle_column_sort", clicked |-> TRUE, id |-> clicked_column]
    /\ sort_state' = handle_column_sort(clicked_column, sort_state)
    /\ UNCHANGED <<gene_mapping, df, params, out, prev, op, active_filters,
                   variants_file, comments_file,
                   sample_index_file, db, clock,
                   panel_manager, panel_files, comment_modal>>

\* handle_column_sort fires with no header clicked yet: it returns current_sort
SortHeadersRendered ==
    /\ triggered' = [callback |-> "handle_column_sort", clicked |-> FALSE, id |-> "None"]
    /\ UNCHANGED <<gene_mapping, df, params, out, prev, op, sort_state, active_filters,
                   variants_file, comments_file,
                   sample_index_file, db, clock,
                   panel_manager, panel_files, comment_modal>>

\* a preset button is clicked
ClickPresetFilter(filter_id) ==
    /\ triggered' = [callback |-> "handle_preset_filters", clicked |-> TRUE, id |-> filter_id]
    /\ active_filters' = handle_preset_filters(filter_id, active_filters)
    /\ UNCHANGED <<gene_mapping, df, params, out, prev, op, sort_state,
                   variants_file, comments_file,
                   sample_index_file, db, clock,
                   panel_manager, panel_files, comment_modal>>

\* reset_all_filters / clear_all_filters_sidebar: both empty the active filters
\* and put the sort state back to its initial value
ResetAllFilters(callback) ==
    /\ triggered' = [callback |-> callback, clicked |-> TRUE, id |-> "None"]
    /\ active_filters' = NoFilters
    /\ sort_state' = InitialSortState
    /\ UNCHANGED <<gene_mapping, df, params, out, prev, op, variants_file, comments_file,
                   sample_index_file, db, clock,
                   panel_manager, panel_files, comment_modal>>

InitUI ==
    /\ gene_mapping = <<>>
    /\ df = <<>>
    /\ params = NoParams
    /\ out = <<>>
    /\ prev = <<>>
    /\ op = "init"
    /\ sort_state = InitialSortState
    /\ active_filters = NoFilters
    /\ triggered = [callback |-> "none", clicked |-> FALSE, id |-> "None"]
    /\ IdleStore

NextUI ==
    \/ \E clicked_column \in HeaderColumns : ClickSortHeader(clicked_column)
    \/ SortHeadersRendered
    \/ \E filter_id \in PresetIds : ClickPresetFilter(filter_id)
    \/ \E callback \in {"reset_all_filters", "clear_all_filters_sidebar"} :
          ResetAllFilters(callback)

SpecUI == InitUI /\ [][NextUI]_vars

\* C9: over any sequence of sort-header clicks the sort state holds exactly one
\* column and one direction; a click on the active column flips the direction
\* and keeps the column, a click on another column makes it active, ascending.
C9_SortClickTogglesOrResets ==
    [][ (triggered'.callback = "handle_column_sort" /\ triggered'.clicked) =>
           /\ sort_state' \in [column : HeaderColumns, direction : {"asc", "desc"}]
           /\ sort_state'.column = triggered'.id
           /\ sort_state.column = triggered'.id =>
                 /\ sort_state'.direction # sort_state.direction
                 /\ sort_state'.direction \in {"asc", "desc"}
           /\ sort_state.column # triggered'.id => sort_state'.direction = "asc" ]_vars

\* a second click on the active column has made the sort descending, other presets active
C9_Witness ==
    /\ triggered = [callback |-> "handle_column_sort", clicked |-> TRUE, id |-> "gene"]
    /\ sort_state = [column |-> "gene", direction |-> "desc"]
    /\ DOMAIN active_filters # {}

---------------------------------------------------------------------------
(* OptimizedParquetDB.load_variants_lazy (src/database.py).  A parquet file is
   a record: whether it exists, whether it can be read, its columns and its rows.
   The rows of the variants file are kept as runs: a run is n consecutive rows
   of one SAMPLE and CHROM at positions POS, POS + 1, ..., POS + n - 1, so that
   a file longer than MAX_LOAD_LIMIT is a short sequence.  variant_key is
   CHROM:POS:REF:ALT; with one REF and ALT it is the pair <<CHROM, POS>>. *)

MAX_DISPLAY_VARIANTS == 20

MAX_LOAD_LIMIT == 5000

\* the optional frequency columns of the variants file that the loader looks at
gnomad_pop_columns == {"gnomad_af_afr", "gnomad_af_amr", "gnomad_af_eas",
                       "gnomad_af_nfe", "gnomad_af_sas"}

\* pl.DataFrame(): no column, no row
EmptyDataFrame == [columns |-> {}, rows |-> <<>>]

RECURSIVE RowCount(_)
\* len(df)
RowCount(runs) == IF runs = <<>> THEN 0 ELSE Head(runs).n + RowCount(Tail(runs))

RECURSIVE Limit(_, _)
\* LazyFrame.limit(k) for k >= 0: the first k rows
Limit(runs, k) ==
    IF k = 0 \/ runs = <<>> THEN <<>>
    ELSE IF Head(runs).n <= k
         THEN <<Head(runs)>> \o Limit(Tail(runs), k - Head(runs).n)
         ELSE <<[Head(runs) EXCEPT !.n = k]>>

RECURSIVE Expand(_)
\* the same rows, one run per row
Expand(runs) ==
    IF runs = <<>> THEN <<>>
    ELSE [i \in 1..Head(runs).n |-> [Head(runs) EXCEPT !.POS = @ + i - 1, !.n = 1]]
         \o Expand(Tail(runs))

\* with_columns(value.alias(name)) on one run
WithColumn(run, name, value) ==
    [f \in DOMAIN run \cup {name} |-> IF f = name THEN value ELSE run[f]]

\* limit or MAX_LOAD_LIMIT: None and 0 are both falsy
LimitOrMax(limit) == IF limit.is_none \/ limit.n = 0 THEN MAX_LOAD_LIMIT ELSE limit.n

Min(a, b) == IF a <= b THEN a ELSE b

effective_limit(limit) == Min(LimitOrMax(limit), MAX_LOAD_LIMIT)

\* [str(c).replace('chr', '') for c in chromosomes]
chrom_list(chromosomes) == {Replace(c, T_chr, <<>>) : c \in chromosomes}

\* the filters list applied to the scanned file
LoadFilters(runs, samples, chromosomes) ==
    LET is_in_samples(r) == samples # {} => r.SAMPLE \in samples
        is_in_chroms(r) == chromosomes # {} => r.CHROM \in chrom_list(chromosomes)
    IN  Filter(Filter(runs, is_in_samples), is_in_chroms)

\* _ensure_max_gnomad_af, on the columns of the frame: the column is added
\* from the population columns, from gnomad_af or as 0.0 when it is missing
ensure_max_gnomad_af(columns) ==
    IF "max_gnomad_af" \notin columns THEN columns \cup {"max_gnomad_af"} ELSE columns

\* group_by(['variant_key', 'sample_id']).agg(pl.len()) looked up for one row
comment_counts(comments, variant_key, sample) ==
    Cardinality({i \in 1..Len(comments) :
                    /\ comments[i].variant_key = variant_key
                    /\ comments[i].sample_id = sample})

\* with_columns(pl.lit(0).alias('comment_count'))
CommentCountZero(frame) ==
    [columns |-> frame.columns \cup {"comment_count"},
     rows |-> [i \in 1..Len(frame.rows) |-> WithColumn(frame.rows[i], "comment_count", 0)]]

\* the left join with the grouped comment counts, nulls filled with 0
CommentCountJoined(frame, comments) ==
    LET rows == Expand(frame.rows)
    IN  [columns |-> frame.columns \cup {"comment_count"},
         rows |-> [i \in 1..Len(rows) |->
                      WithColumn(rows[i], "comment_count",
                                 comment_counts(comments.rows, <<rows[i].CHROM, rows[i].POS>>,
                                                rows[i].SAMPLE))]]

\* the join raises when the frame has no variant_key column to join on
JoinRaises(frame) == "variant_key" \notin frame.columns

\* the comment_count step with an error of the join leaving through the outer
\* except of load_variants_lazy, which returns pl.DataFrame()
AttachCommentCount_JoinErrorEscapes(frame, comments) ==
    IF RowCount(frame.rows) <= MAX_DISPLAY_VARIANTS
    THEN IF comments.exists
         THEN IF ~comments.readable THEN CommentCountZero(frame)
              ELSE IF Len(comments.rows) > 0
                   THEN IF JoinRaises(frame) THEN [columns |-> {}, rows |-> <<>>]
                        ELSE CommentCountJoined(frame, comments)
                   ELSE frame
         ELSE CommentCountZero(frame)
    ELSE CommentCountZero(frame)

\* the comment_count step of load_variants_lazy: an error while reading the
\* comments or joining them is caught by the inner except, which sets 0
AttachCommentCount(frame, comments) ==
    IF RowCount(frame.rows) <= MAX_DISPLAY_VARIANTS
    THEN IF comments.exists
         THEN IF ~comments.readable THEN CommentCountZero(frame)
              ELSE IF Len(comments.rows) > 0
                   THEN IF JoinRaises(frame) THEN CommentCountZero(frame)
                        ELSE CommentCountJoined(frame, comments)
                   ELSE frame
         ELSE CommentCountZero(frame)
    ELSE CommentCountZero(frame)

\* load_variants_lazy(samples, chromosomes, limit) on the files variants, comments
load_variants_lazy(variants, comments, samples, chromosomes, limit) ==
    IF ~variants.exists THEN EmptyDataFrame
    ELSE IF ~variants.readable \/ effective_limit(limit) < 0
         THEN EmptyDataFrame     \* scan_parquet, limit or collect raised
         ELSE LET rows == Limit(LoadFilters(variants.rows, samples, chromosomes),
                                effective_limit(limit))
                  df0 == [columns |-> IF RowCount(rows) > 0
                                      THEN ensure_max_gnomad_af(variants.columns)
                                      ELSE variants.columns,
                          rows |-> rows]
              IN  AttachCommentCount(df0, comments)

\* the files and arguments the loader is run on
MaxRuns == 2

\* a limit argument: None, or the integer n
NoLimit == [is_none |-> TRUE, n |-> 0]

IntLimit(n) == [is_none |-> FALSE, n |-> n]

LoadLimits ==
    {NoLimit} \cup {IntLimit(n) : n \in {-1, 0, 1, 2, MAX_LOAD_LIMIT, MAX_LOAD_LIMIT + 1}}

Run(s, c, n) == [SAMPLE |-> s, CHROM |-> c, POS |-> 100, n |-> n]

Runs == {Run(s, c, n) : s \in {S1, S2}, c \in {<<"1">>, <<"X">>},
                        n \in {1, MAX_DISPLAY_VARIANTS + 1, MAX_LOAD_LIMIT}}

\* variant_key + SAMPLE identifies a row: no two runs of one sample and chromosome
VariantRows ==
    {rows \in SeqsUpTo(Runs, MaxRuns) :
        \A i, j \in 1..Len(rows) :
            i # j => <<rows[i].SAMPLE, rows[i].CHROM>> # <<rows[j].SAMPLE, rows[j].CHROM>>}

BaseColumns == {"CHROM", "POS", "SAMPLE", "variant_key"}

VariantFiles ==
    {NoFile, [exists |-> TRUE, readable |-> FALSE, columns |-> {}, rows |-> <<>>]}
    \cup {[exists |-> TRUE, readable |-> TRUE, columns |-> BaseColumns \cup extra, rows |-> rows] :
             extra \in {{"gnomad_af"}, {"gnomad_af", "max_gnomad_af"}}, rows \in VariantRows}
    \cup {[exists |-> TRUE, readable |-> TRUE, columns |-> (BaseColumns \ {"variant_key"}) \cup {"gnomad_af"},
           rows |-> rows] : rows \in VariantRows}

Comment(c, pos, s) == [variant_key |-> <<c, pos>>, sample_id |-> s]

CommentFiles ==
    {NoFile, [exists |-> TRUE, readable |-> FALSE, rows |-> <<>>]}
    \cup {[exists |-> TRUE, readable |-> TRUE, rows |-> rows] :
             rows \in {<<>>, <<Comment(<<"1">>, 100, S1)>>,
                       <<Comment(<<"1">>, 100, S1), Comment(<<"1">>, 100, S1)>>}}

LoadSamples == {{}, {S1}}

LoadChromosomes == {{}, {<<"c", "h", "r", "1">>}}

\* db.load_variants_lazy(samples, chromosomes, limit)
CallLoadVariantsLazy(samples, chromosomes, limit) ==
    /\ op = "init"
    /\ op' = "load_variants_lazy"
    /\ params' = [samples |-> samples, chromosomes |-> chromosomes, limit |-> limit]
    /\ out' = load_variants_lazy(variants_file, comments_file, samples, chromosomes, limit)
    /\ UNCHANGED <<gene_mapping, df, prev, sort_state, active_filters, triggered,
                   variants_file, comments_file,
                   sample_index_file, db, clock,
                   panel_manager, panel_files, comment_modal>>

\* load_variants_from_parquet(): db.load_variants_lazy() with its defaults
load_variants_from_parquet ==
    /\ op = "init"
    /\ op' = "load_variants_from_parquet"
    /\ params' = [samples |-> {}, chromosomes |-> {}, limit |-> NoLimit]
    /\ out' = load_variants_lazy(variants_file, comments_file, {}, {}, NoLimit)
    /\ UNCHANGED <<gene_mapping, df, prev, sort_state, active_filters, triggered,
                   variants_file, comments_file,
                   sample_index_file, db, clock,
                   panel_manager, panel_files, comment_modal>>

InitLoad ==
    /\ gene_mapping = <<>>
    /\ df = <<>>
    /\ params = NoParams
    /\ out = EmptyDataFrame
    /\ prev = <<>>
    /\ op = "init"
    /\ IdleUI
    /\ variants_file \in VariantFiles
    /\ comments_file \in CommentFiles
    /\ IdleDB

NextLoad ==
    \/ \E samples \in LoadSamples, chromosomes \in LoadChromosomes, limit \in LoadLimits :
          CallLoadVariantsLazy(samples, chromosomes, limit)
    \/ load_variants_from_parquet

SpecLoad == InitLoad /\ [][NextLoad]_vars

\* C10: for every caller-supplied integer limit (taken non-negative: below zero
\* the bound itself is negative and no row count meets it), load_variants_lazy
\* returns at most min(limit, MAX_LOAD_LIMIT) rows.
C10_LoadAtMostMinLimitCap ==
    (op = "load_variants_lazy" /\ ~params.limit.is_none /\ params.limit.n >= 0) =>
        RowCount(out.rows) <= Min(params.limit.n, MAX_LOAD_LIMIT)

---------------------------------------------------------------------------
(* Properties of load_variants_lazy *)

\* the last operation was a load
Loaded == op \in {"load_variants_lazy", "load_variants_from_parquet"}

\* reading the variants dataset failed: the file cannot be parsed, or the limit is refused
ReadFailed ==
    /\ variants_file.exists
    /\ ~variants_file.readable \/ effective_limit(params.limit) < 0

\* the rows the load read from the file, before the derived columns
RowsRead ==
    Limit(LoadFilters(variants_file.rows, params.samples, params.chromosomes),
          effective_limit(params.limit))

\* computing comment_count failed: the comments cannot be read or cannot be joined
CommentCountFailed ==
    /\ variants_file.exists
    /\ ~ReadFailed
    /\ RowCount(RowsRead) <= MAX_DISPLAY_VARIANTS
    /\ comments_file.exists
    /\ \/ ~comments_file.readable
       \/ Len(comments_file.rows) > 0 /\ JoinRaises(variants_file)

\* C11 (amended): load_variants_lazy never raises: it always returns a frame;
\* when reading or parsing the variants dataset fails the frame is empty, and
\* when computing comment_count fails the frame holds the rows read, each with
\* comment_count 0.
C11_LoadFailsSoft ==
    Loaded =>
        /\ DOMAIN out = {"columns", "rows"}
        /\ ReadFailed => out = EmptyDataFrame
        /\ CommentCountFailed =>
              /\ RowCount(out.rows) = RowCount(RowsRead)
              /\ \A i \in 1..Len(out.rows) : out.rows[i].comment_count = 0

\* a load whose join raised and that returned the two rows it had read
C11_Witness ==
    /\ op = "load_variants_lazy"
    /\ CommentCountFailed
    /\ comments_file.readable
    /\ JoinRaises(variants_file)
    /\ RowCount(out.rows) = 2

\* C11 as stated: whenever reading the variants dataset or computing the
\* derived columns fails, load_variants_lazy returns an empty row-set.
C11_FailureGivesEmptyRowSet ==
    (Loaded /\ (ReadFailed \/ CommentCountFailed)) => out.rows = <<>>

\* C13: every row-set load_variants_lazy returns from a dataset it could read
\* has the max_gnomad_af column, also when the stored dataset lacks the column
\* and whatever the number of rows returned.
C13_MaxGnomadAfPresent ==
    (Loaded /\ variants_file.exists /\ ~ReadFailed) => "max_gnomad_af" \in out.columns

\* the comments stored in the comments dataset
StoredComments == IF comments_file.exists THEN comments_file.rows ELSE <<>>

\* C14: in a result of at most MAX_DISPLAY_VARIANTS rows every row carries a
\* comment_count equal to the number of stored comments of its (variant_key,
\* SAMPLE), 0 when there are none; in a larger result every comment_count is 0.
\* Stated for loads whose variants and comments datasets can be read and joined.
C14_CommentCountPerRow ==
    ( /\ Loaded
      /\ variants_file.exists
      /\ ~ReadFailed
      /\ ~JoinRaises(variants_file)
      /\ comments_file.exists => comments_file.readable )
    => \A i \in 1..Len(out.rows) :
          /\ "comment_count" \in DOMAIN out.rows[i]
          /\ \A k \in 0..(out.rows[i].n - 1) :
                out.rows[i].comment_count =
                    IF RowCount(out.rows) <= MAX_DISPLAY_VARIANTS
                    THEN comment_counts(StoredComments,
                                        <<out.rows[i].CHROM, out.rows[i].POS + k>>,
                                        out.rows[i].SAMPLE)
                    ELSE 0

---------------------------------------------------------------------------
(* The database object and the comment store (src/database.py).  A file that
   exists also has a modification time mtime, the tick of the clock at which
   it was last written; every write takes one tick, so a rewritten file has a
   modification time later than any seen before. *)

RECURSIVE SortedList(_)
\* sorted(values) for a set of strings
SortedList(S) ==
    IF S = {} THEN <<>>
    ELSE LET m == CHOOSE x \in S : \A y \in S : ~LexLess(y, x)
         IN  <<m>> \o SortedList(S \ {m})

RECURSIVE SortedSeq(_)
\* sorted(values) for a list of strings, equal values kept
SortedSeq(l) ==
    IF l = <<>> THEN <<>>
    ELSE LET rest == SortedSeq(Tail(l))
             k == Cardinality({i \in 1..Len(rest) : ~LexLess(Head(l), rest[i])})
         IN  SubSeq(rest, 1, k) \o <<Head(l)>> \o SubSeq(rest, k + 1, Len(rest))

\* the body of get_available_samples: the sample index if there is one, else
\* the distinct SAMPLE values of the variants file; [] on any error
ReadAvailableSamples(index, variants) ==
    IF index.exists
    THEN IF index.readable THEN SortedSeq(index.rows) ELSE <<>>
    ELSE IF variants.exists
         THEN IF variants.readable /\ "SAMPLE" \in variants.columns
              THEN SortedList({variants.rows[i].SAMPLE : i \in 1..Len(variants.rows)})
              ELSE <<>>
         ELSE <<>>

\* _invalidate_cache
invalidate_cache(d) == [d EXCEPT !.cache = <<>>, !.samples_lru = <<>>]

\* _check_file_modified with no modification ever reported
check_file_modified_Never(d, variants) == [db |-> d, modified |-> FALSE]

\* _check_file_modified: the database object it leaves and the value it returns
check_file_modified(d, variants) ==
    IF ~variants.exists THEN [db |-> d, modified |-> FALSE]
    ELSE IF d.last_modified # variants.mtime
         THEN [db |-> invalidate_cache([d EXCEPT !.last_modified = variants.mtime]),
               modified |-> TRUE]
         ELSE [db |-> d, modified |-> FALSE]

\* the aggregate returned for a missing file and on any error
ZeroStats ==
    [total_variants |-> 0, total_samples |-> 0, reviewed_variants |-> 0,
     pending_variants |-> 0, clinvar_annotated |-> 0, chromosomes |-> <<>>]

T_Reviewed == <<"R", "e", "v", "i", "e", "w", "e", "d">>

T_Pending == <<"P", "e", "n", "d", "i", "n", "g">>

\* clinvar_sig of a row without ClinVar annotation (null)
NullSig == <<"n", "u", "l", "l">>

\* the number of rows in the runs that satisfy pred
CountRows(runs, pred(_)) == RowCount(SelectSeq(runs, pred))

\* x or y on numbers: 0 is falsy
OrElse(x, y) == IF x = 0 THEN y ELSE x

\* the aggregate get_database_stats computes from a file it can scan
ComputeStats(variants) ==
    LET rows == variants.rows
        total_variants == RowCount(rows)
        reviewed == CountRows(rows, LAMBDA r : r.review_status = T_Reviewed)
        pending == CountRows(rows, LAMBDA r : r.review_status = T_Pending)
    IN  [total_variants |-> total_variants,
         total_samples |-> Cardinality({rows[i].SAMPLE : i \in 1..Len(rows)}),
         reviewed_variants |-> OrElse(reviewed, 0),
         pending_variants |-> OrElse(pending, total_variants),
         clinvar_annotated |-> OrElse(CountRows(rows, LAMBDA r : r.clinvar_sig # NullSig), 0),
         chromosomes |-> SortedList({rows[i].CHROM : i \in 1..Len(rows)})]

\* the columns get_database_stats reads
StatsColumns == {"SAMPLE", "review_status", "clinvar_sig", "CHROM"}

\* get_database_stats: the value returned, the database object left, and
\* whether the value came from the cache
get_database_stats(d, variants) ==
    LET cached == d.cache # <<>>
        check == IF cached THEN check_file_modified(d, variants)
                 ELSE [db |-> d, modified |-> FALSE]
    IN  IF cached /\ ~check.modified
        THEN [ret |-> d.cache[1], db |-> check.db, from_cache |-> TRUE]
        ELSE IF ~variants.exists
             THEN [ret |-> ZeroStats, db |-> [check.db EXCEPT !.cache = <<ZeroStats>>],
                   from_cache |-> FALSE]
             ELSE IF ~variants.readable \/ ~(StatsColumns \subseteq variants.columns)
                  THEN [ret |-> ZeroStats, db |-> check.db, from_cache |-> FALSE]
                  ELSE [ret |-> ComputeStats(variants),
                        db |-> [check.db EXCEPT !.cache = <<ComputeStats(variants)>>],
                        from_cache |-> FALSE]

\* get_available_samples under lru_cache: the value returned and the cache left
get_available_samples(d, index, variants) ==
    IF d.samples_lru # <<>>
    THEN [ret |-> d.samples_lru[1], db |-> d]
    ELSE [ret |-> ReadAvailableSamples(index, variants),
          db |-> [d EXCEPT !.samples_lru = <<ReadAvailableSamples(index, variants)>>]]

\* ticks of the clock in one second: timestamps are cut to whole seconds
TicksPerSecond == 2

\* datetime.now().strftime("%Y-%m-%d %H:%M:%S"): the second the tick lies in
\* (strings of this format order as the seconds do)
strftime(now) == now \div TicksPerSecond

\* the frame add_variant_comment builds when there is no comments file, and
\* the file init_parquet_database writes
EmptyComments == [exists |-> TRUE, readable |-> TRUE, rows |-> <<>>]

\* comments_df['id'].max()
MaxId(rows) == CHOOSE m \in {rows[i].id : i \in 1..Len(rows)} :
                   \A i \in 1..Len(rows) : rows[i].id <= m

\* new_id with the increment left out
new_id_NoIncrement(rows) == IF Len(rows) > 0 THEN MaxId(rows) ELSE 1

\* new_id = comments_df['id'].max() + 1 if len(comments_df) > 0 else 1
new_id(rows) == IF Len(rows) > 0 THEN MaxId(rows) + 1 ELSE 1

\* what a write_parquet onto an existing path can do: complete; raise before
\* the file is opened, leaving it as it was; or raise after the file was opened
\* for writing, leaving a truncated file that cannot be read as parquet
WriteOutcomes == {"written", "untouched", "torn"}

\* the file a write that fails part-way leaves
TornFile == [exists |-> TRUE, readable |-> FALSE, rows |-> <<>>]

\* add_variant_comment at time now: the value returned and the comments file
\* left; the frame is written straight onto COMMENTS_PARQUET_PATH
add_variant_comment(comments, variant_key, sample_id, user_name, comment_text, now, write) ==
    IF comments.exists /\ ~comments.readable
    THEN [ret |-> FALSE, comments |-> comments]
    ELSE LET comments_df == IF comments.exists THEN comments.rows ELSE <<>>
             new_comment == [id |-> new_id(comments_df), variant_key |-> variant_key,
                             sample_id |-> sample_id, user_name |-> user_name,
                             comment_text |-> comment_text, timestamp |-> strftime(now)]
         IN  IF write = "written"
             THEN [ret |-> TRUE,
                   comments |-> [EmptyComments EXCEPT !.rows = comments_df \o <<new_comment>>]]
             ELSE IF write = "torn"
             THEN [ret |-> FALSE, comments |-> TornFile]
             ELSE [ret |-> FALSE, comments |-> comments]

\* select(['user_name', 'comment_text', 'timestamp'])
CommentView(c) ==
    [user_name |-> c.user_name, comment_text |-> c.comment_text, timestamp |-> c.timestamp]

\* get_variant_comments: the frames it can return; the sort by timestamp,
\* descending, leaves the order of comments of one second open
get_variant_comments(comments, variant_key, sample_id) ==
    IF ~comments.exists \/ ~comments.readable \/ Len(comments.rows) = 0 THEN {<<>>}
    ELSE LET variant_comments ==
                 SelectSeq(comments.rows,
                           LAMBDA c : c.variant_key = variant_key /\ c.sample_id = sample_id)
         IN  { [i \in 1..Len(sorted) |-> CommentView(sorted[i])] :
                 sorted \in SortOutcomes(variant_comments,
                                         LAMBDA a, b : a.timestamp > b.timestamp) }

\* init_parquet_database with the empty comments file written on every start
init_parquet_database_Overwrites(comments) == EmptyComments

\* init_parquet_database: the comments file it leaves
init_parquet_database(comments) == IF ~comments.exists THEN EmptyComments ELSE comments

\* the when / then / otherwise of update_variant_review_status with SAMPLE not compared
UpdatedRow_AnySample(row, variant_key, sample_id, new_status) ==
    IF <<row.CHROM, row.POS>> = variant_key
    THEN [row EXCEPT !.review_status = new_status] ELSE row

\* the when / then / otherwise of update_variant_review_status on one row
UpdatedRow(row, variant_key, sample_id, new_status) ==
    IF <<row.CHROM, row.POS>> = variant_key /\ row.SAMPLE = sample_id
    THEN [row EXCEPT !.review_status = new_status] ELSE row

\* the columns update_variant_review_status reads
UpdateColumns == {"variant_key", "SAMPLE", "review_status"}

\* update_variant_review_status at time now: the value returned and the
\* variants file left; the frame is written straight onto VARIANTS_PARQUET_PATH,
\* and a write takes one tick
update_variant_review_status(variants, variant_key, sample_id, new_status, now, write) ==
    IF ~variants.exists THEN [ret |-> FALSE, variants |-> variants]
    ELSE IF ~variants.readable \/ ~(UpdateColumns \subseteq variants.columns)
              \/ write = "untouched"
         THEN [ret |-> FALSE, variants |-> variants]
         ELSE IF write = "torn"
         THEN [ret |-> FALSE,
               variants |-> [variants EXCEPT !.readable = FALSE, !.rows = <<>>,
                                             !.mtime = now + 1]]
         ELSE LET rows == Expand(variants.rows)
              IN  [ret |-> TRUE,
                   variants |-> [variants EXCEPT
                       !.rows = [i \in 1..Len(rows) |->
                                    UpdatedRow(rows[i], variant_key, sample_id, new_status)],
                       !.mtime = now + 1]]

\* the files and arguments of the store operations
MaxClock == 4

MaxComments == 3

StoreRun(s, c, n, status, sig) ==
    [SAMPLE |-> s, CHROM |-> c, POS |-> 100, n |-> n, review_status |-> status,
     clinvar_sig |-> sig]

StoreColumns == BaseColumns \cup {"review_status", "clinvar_sig", "gnomad_af"}

\* two datasets with different samples: one variant seen in S1 and S2, and two variants of S2
StoreContents ==
    { <<StoreRun(S1, <<"1">>, 1, T_Pending, T_Pathogenic),
        StoreRun(S2, <<"1">>, 1, T_Pending, NullSig)>>,
      <<StoreRun(S2, <<"X">>, 2, T_Pending, NullSig)>> }

StoreFile(rows, mtime) ==
    [exists |-> TRUE, readable |-> TRUE, columns |-> StoreColumns, rows |-> rows,
     mtime |-> mtime]

StoreKeys == {<<<<"1">>, 100>>, <<<<"X">>, 101>>}

\* the variables no store operation touches
StoreFrame ==
    UNCHANGED <<gene_mapping, df, sort_state, active_filters, triggered,
                panel_manager, panel_files, comment_modal>>

\* get_available_samples()
CallGetAvailableSamples ==
    LET r == get_available_samples(db, sample_index_file, variants_file)
    IN  /\ op' = "get_available_samples"
        /\ params' = NoParams
        /\ out' = r.ret
        /\ prev' = <<>>
        /\ db' = r.db
        /\ UNCHANGED <<variants_file, comments_file, sample_index_file, clock>>
        /\ StoreFrame

\* db.get_database_stats(); prev records whether the value came from the cache
CallGetDatabaseStats ==
    LET r == get_database_stats(db, variants_file)
    IN  /\ op' = "get_database_stats"
        /\ params' = NoParams
        /\ out' = r.ret
        /\ prev' = r.from_cache
        /\ db' = r.db
        /\ UNCHANGED <<variants_file, comments_file, sample_index_file, clock>>
        /\ StoreFrame

\* add_variant_comment(variant_key, sample_id, user_name, comment_text)
CallAddVariantComment(variant_key, sample_id, user_name, comment_text, write) ==
    LET r == add_variant_comment(comments_file, variant_key, sample_id, user_name,
                                 comment_text, clock, write)
    IN  /\ comments_file.exists => Len(comments_file.rows) < MaxComments
        /\ op' = "add_variant_comment"
        /\ params' = [variant_key |-> variant_key, sample_id |-> sample_id,
                      user_name |-> user_name, comment_text |-> comment_text]
        /\ out' = r.ret
        /\ prev' = <<>>
        /\ comments_file' = r.comments
        /\ db' = IF r.ret THEN invalidate_cache(db) ELSE db
        /\ UNCHANGED <<variants_file, sample_index_file, clock>>
        /\ StoreFrame

\* get_variant_comments(variant_key, sample_id)
CallGetVariantComments(variant_key, sample_id) ==
    /\ op' = "get_variant_comments"
    /\ params' = [variant_key |-> variant_key, sample_id |-> sample_id]
    /\ out' \in get_variant_comments(comments_file, variant_key, sample_id)
    /\ prev' = <<>>
    /\ UNCHANGED <<variants_file, comments_file, sample_index_file, db, clock,
                   panel_manager, panel_files, comment_modal>>
    /\ StoreFrame

\* update_variant_review_status(variant_key, sample_id, new_status); prev keeps
\* the variants file as it was before the call
CallUpdateVariantReviewStatus(variant_key, sample_id, new_status, write) ==
    LET r == update_variant_review_status(variants_file, variant_key, sample_id,
                                          new_status, clock, write)
    IN  /\ clock < MaxClock
        /\ op' = "update_variant_review_status"
        /\ params' = [variant_key |-> variant_key, sample_id |-> sample_id,
                      new_status |-> new_status]
        /\ out' = r.ret
        /\ prev' = variants_file
        /\ variants_file' = r.variants
        /\ db' = IF r.ret THEN invalidate_cache(db) ELSE db
        /\ clock' = IF r.variants # variants_file THEN clock + 1 ELSE clock
        /\ UNCHANGED <<comments_file, sample_index_file>>
        /\ StoreFrame

\* init_parquet_database()
CallInitParquetDatabase ==
    /\ op' = "init_parquet_database"
    /\ params' = NoParams
    /\ out' = <<>>
    /\ prev' = <<>>
    /\ comments_file' = init_parquet_database(comments_file)
    /\ UNCHANGED <<variants_file, sample_index_file, db, clock,
                   panel_manager, panel_files, comment_modal>>
    /\ StoreFrame

\* the load of the display handler: db.load_variants_lazy(samples=selected_samples,
\* limit=MAX_LOAD_LIMIT)
CallLoadSelectedSamples(selected_samples) ==
    /\ op' = "load_variants_lazy"
    /\ params' = [samples |-> selected_samples, chromosomes |-> {},
                  limit |-> IntLimit(MAX_LOAD_LIMIT)]
    /\ out' = load_variants_lazy(variants_file, comments_file, selected_samples, {},
                                 IntLimit(MAX_LOAD_LIMIT))
    /\ prev' = <<>>
    /\ UNCHANGED <<variants_file, comments_file, sample_index_file, db, clock,
                   panel_manager, panel_files, comment_modal>>
    /\ StoreFrame

\* the ingestion step, outside the program, replaces the variants file
RewriteVariantsFile(rows) ==
    /\ clock < MaxClock
    /\ variants_file' = StoreFile(rows, clock + 1)
    /\ clock' = clock + 1
    /\ op' = "variants_file_rewritten"
    /\ UNCHANGED <<params, out, prev, comments_file, sample_index_file, db>>
    /\ StoreFrame

\* the variants file is removed
DeleteVariantsFile ==
    /\ variants_file.exists
    /\ variants_file' = NoFile
    /\ op' = "variants_file_removed"
    /\ UNCHANGED <<params, out, prev, comments_file, sample_index_file, db, clock,
                   panel_manager, panel_files, comment_modal>>
    /\ StoreFrame

\* time passes
Tick ==
    /\ clock < MaxClock
    /\ clock' = clock + 1
    /\ op' = "time_passes"
    /\ UNCHANGED <<params, out, prev, variants_file, comments_file,
                   sample_index_file, db>>
    /\ StoreFrame

\* the database object over a variants file that is updated, replaced and removed
InitStore ==
    /\ gene_mapping = <<>>
    /\ df = <<>>
    /\ params = NoParams
    /\ out = <<>>
    /\ prev = <<>>
    /\ op = "init"
    /\ IdleUI
    /\ variants_file \in {NoFile} \cup {StoreFile(rows, 1) : rows \in StoreContents}
                        \cup {[StoreFile(<<>>, 1) EXCEPT !.readable = FALSE]}
    /\ comments_file = EmptyComments
    /\ sample_index_file \in {NoFile, [exists |-> TRUE, readable |-> TRUE, rows |-> <<S2, S1, S1>>]}
    /\ db = NewDB
    /\ clock = 1
    /\ IdlePanels

NextStore ==
    \/ CallGetAvailableSamples
    \/ CallGetDatabaseStats
    \/ /\ Len(comments_file.rows) = 0
       /\ CallAddVariantComment(<<<<"1">>, 100>>, S1, <<"u">>, <<"a">>, "written")
    \/ \E variant_key \in StoreKeys, sample_id \in {S1, S2},
          new_status \in {T_Reviewed, T_Pending}, write \in {"written", "untouched"} :
          CallUpdateVariantReviewStatus(variant_key, sample_id, new_status, write)
    \/ \E rows \in StoreContents : RewriteVariantsFile(rows)
    \/ DeleteVariantsFile

SpecStore == InitStore /\ [][NextStore]_vars

\* the comment store under every operation that reads or writes it
InitComments ==
    /\ gene_mapping = <<>>
    /\ df = <<>>
    /\ params = NoParams
    /\ out = <<>>
    /\ prev = <<>>
    /\ op = "init"
    /\ IdleUI
    /\ variants_file \in {StoreFile(rows, 1) : rows \in StoreContents}
    /\ comments_file \in {NoFile, EmptyComments, [EmptyComments EXCEPT !.readable = FALSE]}
    /\ sample_index_file = NoFile
    /\ db = NewDB
    /\ clock = 1
    /\ IdlePanels

NextComments ==
    \/ \E sample_id \in {S1, S2}, comment_text \in {<<"a">>, <<"b">>},
          write \in {"written", "untouched"} :
          CallAddVariantComment(<<<<"1">>, 100>>, sample_id, <<"u">>, comment_text, write)
    \/ \E sample_id \in {S1, S2} : CallGetVariantComments(<<<<"1">>, 100>>, sample_id)
    \/ CallUpdateVariantReviewStatus(<<<<"1">>, 100>>, S1, T_Reviewed, "written")
    \/ CallInitParquetDatabase
    \/ CallLoadSelectedSamples({S1})
    \/ Tick

SpecComments == InitComments /\ [][NextComments]_vars

---------------------------------------------------------------------------
(* Properties of the database object and the comment store *)

\* C12: whenever the variants file is absent at the time of the call,
\* get_available_samples returns the empty list and get_database_stats the
\* all-zero aggregate with no chromosomes, whatever was called before.
C12_MissingFileIsEmpty ==
    /\ (op = "get_available_samples" /\ ~variants_file.exists) => out = <<>>
    /\ (op = "get_database_stats" /\ ~variants_file.exists) => out = ZeroStats

\* the ids of the stored comments are pairwise distinct
DistinctIds(rows) == \A i, j \in 1..Len(rows) : rows[i].id = rows[j].id => i = j

\* C15: over any sequence of add_variant_comment calls the comment ids stay
\* pairwise distinct: a comment added to an empty store gets id 1, every later
\* one the maximum existing id plus 1.
C15_CommentIdsDistinct ==
    [][ (op' = "add_variant_comment" /\ out' = TRUE) =>
            LET old == StoredComments
                new == StoredComments'
            IN  /\ new[Len(new)].id = IF old = <<>> THEN 1 ELSE MaxId(old) + 1
                /\ DistinctIds(new) ]_vars

\* three comments stored, the last one with id 3
C15_Witness ==
    /\ op = "add_variant_comment"
    /\ out = TRUE
    /\ Len(StoredComments) = 3
    /\ StoredComments[3].id = 3

CommentsOf(variant_key, sample_id) ==
    SelectSeq(StoredComments,
              LAMBDA c : c.variant_key = variant_key /\ c.sample_id = sample_id)

\* C17: when add_variant_comment has returned true and get_variant_comments is
\* called next for the same (variant_key, sample_id), the result holds the
\* comments of that pair only and its first row is the comment just added, also
\* when earlier comments of the pair carry the same timestamp string.
C17_NewCommentFirst ==
    [][ ( /\ op = "add_variant_comment"
          /\ out = TRUE
          /\ op' = "get_variant_comments"
          /\ params'.variant_key = params.variant_key
          /\ params'.sample_id = params.sample_id )
        => LET mine == CommentsOf(params.variant_key, params.sample_id)
           IN  /\ Len(out') = Len(mine)
               /\ \A i \in 1..Len(out') :
                     \E j \in 1..Len(mine) : out'[i] = CommentView(mine[j])
               /\ out'[1] = CommentView(StoredComments[Len(StoredComments)]) ]_vars

\* the row is one that update_variant_review_status was called for
Targeted(row) ==
    <<row.CHROM, row.POS>> = params.variant_key /\ row.SAMPLE = params.sample_id

\* C18: once update_variant_review_status(variant_key, sample_id, new_status)
\* has returned true, the rows whose variant_key and SAMPLE both match have
\* review_status = new_status, and every other row and every other column of
\* the variants dataset is as before the call, with the same number of rows.
C18_UpdateTouchesOnlyMatchingRows ==
    (op = "update_variant_review_status" /\ out = TRUE) =>
        LET before == Expand(prev.rows)
            after  == Expand(variants_file.rows)
        IN  /\ variants_file.exists
            /\ variants_file.columns = prev.columns
            /\ Len(after) = Len(before)
            /\ \A i \in 1..Len(before) :
                  after[i] = IF Targeted(before[i])
                             THEN [before[i] EXCEPT !.review_status = params.new_status]
                             ELSE before[i]

\* a variant seen in two samples is marked reviewed in one of them
C18_Witness ==
    /\ op = "update_variant_review_status"
    /\ out = TRUE
    /\ params.new_status = T_Reviewed
    /\ LET before == Expand(prev.rows)
       IN  \E i, j \in 1..Len(before) :
              /\ Targeted(before[i])
              /\ before[i].review_status = T_Pending
              /\ <<before[j].CHROM, before[j].POS>> = params.variant_key
              /\ before[j].SAMPLE # params.sample_id

\* C19: when the variants file (or the sample index) has been rewritten with
\* another set of samples, its modification time changed, get_available_samples
\* returns the sorted sample identifiers of the current files and not the list
\* an earlier call cached.
C19_SamplesFollowFile ==
    ( /\ op = "get_available_samples"
      /\ variants_file.exists
      /\ variants_file.readable )
    => out = ReadAvailableSamples(sample_index_file, variants_file)

C20_WitnessCached ==
    /\ op = "get_database_stats"
    /\ variants_file.exists
    /\ prev = TRUE
    /\ out.total_variants = 2

\* the number of rows of the variants file with the given review_status
RowsWithStatus(status) ==
    RowCount(SelectSeq(variants_file.rows, LAMBDA r : r.review_status = status))

\* C21: get_database_stats reports reviewed_variants = the number of rows whose
\* review_status is "Reviewed" and pending_variants = the number of rows whose
\* review_status is "Pending", for every dataset update_variant_review_status
\* can produce, a dataset without Pending rows included.
C21_ReviewCounts ==
    ( /\ op = "get_database_stats"
      /\ variants_file.exists
      /\ variants_file.readable
      /\ StatsColumns \subseteq variants_file.columns )
    => /\ out.reviewed_variants = RowsWithStatus(T_Reviewed)
       /\ out.pending_variants = RowsWithStatus(T_Pending)

---------------------------------------------------------------------------
(* The identifier-to-symbol resolver on its own (src/utils.py) *)

T_UNKNOWN == <<"U", "N", "K", "N", "O", "W", "N">>

\* the longest identifier drawn
MaxIdLen == 3

\* identifiers: the empty one, 'UNKNOWN', keys of the mapping, symbols of the
\* mapping in either case, and texts that are neither
GeneIds == SeqsUpTo({"1", "7", "A", "B", "a"}, MaxIdLen) \cup {T_UNKNOWN}

\* get_gene_name_from_id(gene_id)
CallGetGeneNameFromId(gene_id) ==
    /\ op' = "get_gene_name_from_id"
    /\ params' = [gene_id |-> gene_id]
    /\ out' = get_gene_name_from_id(gene_id)
    /\ prev' = <<>>
    /\ UNCHANGED <<gene_mapping, df, sort_state, active_filters, triggered,
                   variants_file, comments_file, sample_index_file, db, clock,
                   panel_manager, panel_files, comment_modal>>

InitGene ==
    /\ gene_mapping \in GeneMappings
    /\ df = <<>>
    /\ params = NoParams
    /\ out = <<>>
    /\ prev = <<>>
    /\ op = "init"
    /\ IdleUI
    /\ IdleStore

NextGene == \E gene_id \in GeneIds : CallGetGeneNameFromId(gene_id)

SpecGene == InitGene /\ [][NextGene]_vars

\* the identifier is a key of the identifier-to-symbol map
IsMappedId(gene_id) ==
    \E i \in 1..Len(load_gene_mapping) : load_gene_mapping[i][1] = gene_id

\* C22: get_gene_name_from_id returns its input unchanged for every identifier
\* that is empty, unknown or not a key of the identifier-to-symbol map, never a
\* placeholder different from the input.
C22_UnmappedIdReturnedUnchanged ==
    (op = "get_gene_name_from_id" /\ ~IsMappedId(params.gene_id))
        => out = params.gene_id

---------------------------------------------------------------------------
(* Gene panels: GenePanelManager (src/gene_panels.py).  A row of panels_df   *)
(* is kept with the columns panel_id, panel_name, source and gene_symbol.    *)

T_internal == <<"i", "n", "t", "e", "r", "n", "a", "l">>

T_panelapp_uk == <<"p", "a", "n", "e", "l", "a", "p", "p", "_", "u", "k">>

T_panelapp_au == <<"p", "a", "n", "e", "l", "a", "p", "p", "_", "a", "u">>

T_Version == <<" ", "V", "e", "r", "s", "i", "o", "n", " ">>

T_genes == <<" ", "g", "e", "n", "e", "s", ")">>

RECURSIVE TrailingDigits(_)
\* the digits a text ends with: the (\d+) before "_v" in _parse_panel_name
TrailingDigits(t) ==
    IF t # <<>> /\ IsDigit(<<t[Len(t)]>>)
    THEN TrailingDigits(SubSeq(t, 1, Len(t) - 1)) \o <<t[Len(t)]>>
    ELSE <<>>

\* str.capitalize()
Capitalize(w) == IF w = <<>> THEN w ELSE <<UpperChar(w[1])>> \o Lower(Tail(w))

RECURSIVE Join(_, _)
\* sep.join(words)
Join(words, sep) ==
    IF words = <<>> THEN <<>>
    ELSE IF Len(words) = 1 THEN words[1]
    ELSE words[1] \o sep \o Join(Tail(words), sep)

RECURSIVE IntText(_)
\* str(n), n >= 0
IntText(n) ==
    IF n < 10 THEN <<DigitChars[n + 1]>>
    ELSE IntText(n \div 10) \o <<DigitChars[(n % 10) + 1]>>

\* _parse_panel_name(filename), for file stems without white space: the words
\* are the non-empty parts between "_"
parse_panel_name(filename) ==
    LET toks == Split(filename, "_")
        n == Len(toks)
        \* re.search(r'(\d+)_v(\d+)$', filename)
        version_match ==
            /\ n >= 2
            /\ Len(toks[n]) >= 2
            /\ toks[n][1] = "v"
            /\ IsDigit(Tail(toks[n]))
            /\ TrailingDigits(toks[n - 1]) # <<>>
        \* re.sub(r'_\d+_v\d+$', '', filename) removes something
        sub_match == n >= 3 /\ IsDigit(toks[n - 1])
        words(ts) == SelectSeq(ts, LAMBDA t : t # <<>>)
    IN  IF version_match
        THEN LET ws == words(IF sub_match THEN SubSeq(toks, 1, n - 2) ELSE toks)
             IN  Join([i \in 1..Len(ws) |-> Capitalize(ws[i])], <<" ">>)
                 \o T_Version \o Tail(toks[n])
                 \o <<" ", "(">> \o TrailingDigits(toks[n - 1]) \o T_genes
        ELSE LET ws == words(toks)
             IN  Join([i \in 1..Len(ws) |->
                          IF IsDigit(ws[i]) THEN ws[i] ELSE Capitalize(ws[i])], <<" ">>)

\* the lines of a panel file that name a gene: stripped, not empty, not a comment
GeneLines(lines) ==
    LET stripped == [i \in 1..Len(lines) |-> Strip(lines[i])]
    IN  SelectSeq(stripped, LAMBDA g : g # <<>> /\ g[1] # "#")

\* the entries of one internal panel file; a file that cannot be read is skipped
InternalFileEntries(panel_file) ==
    IF ~panel_file.readable THEN <<>>
    ELSE LET genes == GeneLines(panel_file.lines)
         IN  [i \in 1..Len(genes) |->
                 [panel_id |-> T_internal \o <<"_">> \o Lower(panel_file.stem),
                  panel_name |-> parse_panel_name(panel_file.stem),
                  source |-> T_internal,
                  gene_symbol |-> Strip(genes[i])]]

RECURSIVE load_internal_panels_to_list(_)
\* _load_internal_panels_to_list: the entries of the *.txt files, in glob order
load_internal_panels_to_list(panel_files_list) ==
    IF panel_files_list = <<>> THEN <<>>
    ELSE InternalFileEntries(Head(panel_files_list))
         \o load_internal_panels_to_list(Tail(panel_files_list))

\* formatted_name = f"{panel_name} Version {panel_version} ({gene_count} genes)"
formatted_name(panel_name, panel_version, gene_count) ==
    panel_name \o T_Version \o panel_version \o <<" ", "(">> \o IntText(gene_count) \o T_genes

\* the entries one listed panel gives: none when its detail request fails,
\* else one per gene of the detail that has a symbol
PanelEntries(panel, prefix, source) ==
    IF ~panel.detail_ok THEN <<>>
    ELSE LET genes == SelectSeq(panel.genes, LAMBDA g : g # <<>>)
         IN  [i \in 1..Len(genes) |->
                 [panel_id |-> prefix \o panel.id,
                  panel_name |-> formatted_name(panel.name, panel.version, Len(panel.genes)),
                  source |-> source,
                  gene_symbol |-> genes[i]]]

RECURSIVE PageEntries(_, _, _)
\* the for loop over the panels of one listing page
PageEntries(panels, prefix, source) ==
    IF panels = <<>> THEN <<>>
    ELSE PanelEntries(Head(panels), prefix, source)
         \o PageEntries(Tail(panels), prefix, source)

RECURSIVE FetchPages_SkipFailedPage(_, _, _)
\* the while loop with a failed page skipped and the next page still requested
FetchPages_SkipFailedPage(pages, prefix, source) ==
    IF pages = <<>> THEN <<>>
    ELSE (IF Head(pages).ok THEN PageEntries(Head(pages).panels, prefix, source) ELSE <<>>)
         \o FetchPages_SkipFailedPage(Tail(pages), prefix, source)

RECURSIVE FetchPages(_, _, _)
\* the while loop over the listing pages: a page request that fails raises to
\* the outer except, which ends the loop with the entries gathered so far
FetchPages(pages, prefix, source) ==
    IF pages = <<>> THEN <<>>
    ELSE IF ~Head(pages).ok THEN <<>>
    ELSE PageEntries(Head(pages).panels, prefix, source)
         \o FetchPages(Tail(pages), prefix, source)

fetch_panelapp_uk_panels(pages) == FetchPages(pages, <<"u", "k", "_">>, T_panelapp_uk)

fetch_panelapp_au_panels(pages) == FetchPages(pages, <<"a", "u", "_">>, T_panelapp_au)

\* get_panel_count
get_panel_count(panels_df) ==
    Cardinality({panels_df[i].panel_id : i \in 1..Len(panels_df)})

\* save_panels: nothing is written for an empty frame; an error is logged
save_panels(files, panels_df, save_ok) ==
    IF Len(panels_df) > 0 /\ save_ok
    THEN [files EXCEPT !.panels = [exists |-> TRUE, rows |-> panels_df]]
    ELSE files

\* update_all_panels at time now: the manager and the files it leaves
update_all_panels(pm, files, internal_files, uk_pages, au_pages, now, save_ok) ==
    LET internal_panels_data == load_internal_panels_to_list(internal_files)
        uk_panels == fetch_panelapp_uk_panels(uk_pages)
        au_panels == fetch_panelapp_au_panels(au_pages)
        all_panels_data == internal_panels_data \o uk_panels \o au_panels
        metadata == [last_update |-> now,
                     total_panels |-> get_panel_count(all_panels_data),
                     sources |-> [panelapp_uk |-> Len(uk_panels),
                                  panelapp_au |-> Len(au_panels),
                                  internal |-> Len(internal_panels_data)]]
    IN  IF all_panels_data # <<>>
        THEN [pm |-> [panels_df |-> all_panels_data, metadata |-> metadata],
              files |-> [save_panels(files, all_panels_data, save_ok)
                            EXCEPT !.metadata = [exists |-> TRUE, value |-> metadata]]]
        ELSE [pm |-> pm, files |-> files]

\* days_threshold of should_update
DaysThreshold == 2

\* ticks of the clock in one day
TicksPerDay == 1

\* should_update(): no last update recorded, or one at least days_threshold days old
should_update(pm, now) ==
    IF pm.metadata.last_update = 0 THEN TRUE
    ELSE (now - pm.metadata.last_update) \div TicksPerDay >= DaysThreshold

\* the icon get_available_panels puts before the panel name
source_icon(source) ==
    IF source = T_panelapp_uk THEN "flag_uk"
    ELSE IF source = T_panelapp_au THEN "flag_au"
    ELSE IF source = T_internal THEN "house"
    ELSE "clipboard"

RECURSIVE SeqOf(_)
\* the elements of a set in some order
SeqOf(S) ==
    IF S = {} THEN <<>>
    ELSE LET x == CHOOSE y \in S : TRUE IN <<x>> \o SeqOf(S \ {x})

\* select(['panel_id', 'panel_name', 'source']).unique()
UniquePanels(panels_df) ==
    { [panel_id |-> panels_df[i].panel_id, panel_name |-> panels_df[i].panel_name,
       source |-> panels_df[i].source] : i \in 1..Len(panels_df) }

\* sort(['source', 'panel_name']): a sorts strictly before b
PanelBefore(a, b) ==
    \/ LexLess(a.source, b.source)
    \/ a.source = b.source /\ LexLess(a.panel_name, b.panel_name)

\* get_available_panels: the option lists it can return
get_available_panels(pm) ==
    IF Len(pm.panels_df) = 0 THEN {<<>>}
    ELSE { [i \in 1..Len(panels) |->
               [label |-> <<source_icon(panels[i].source), " ">> \o panels[i].panel_name,
                value |-> panels[i].panel_id]] :
             panels \in SortOutcomes(SeqOf(UniquePanels(pm.panels_df)), PanelBefore) }

\* get_genes_for_panels_optimized: the genes of the selected panels, stripped,
\* without empty ones; the list comes from a set, so it is kept as one
get_genes_for_panels(pm, selected_panels) ==
    IF selected_panels = {} \/ Len(pm.panels_df) = 0 THEN {}
    ELSE { Strip(pm.panels_df[i].gene_symbol) :
             i \in {k \in 1..Len(pm.panels_df) :
                      /\ pm.panels_df[k].panel_id \in selected_panels
                      /\ Strip(pm.panels_df[k].gene_symbol) # <<>>} }

\* the registries and panel files a refresh can meet
G_AB == <<"A", "B">>

G_CD == <<"C", "D">>

ExtPanel(id, name, genes, detail_ok) ==
    [id |-> id, name |-> name, version |-> <<"1">>, genes |-> genes, detail_ok |-> detail_ok]

ListingPage(ok, panels) == [ok |-> ok, panels |-> panels]

Panel1 == ExtPanel(<<"1">>, <<"C", "a">>, <<G_AB, G_CD>>, TRUE)

Panel2 == ExtPanel(<<"2">>, <<"B", "b">>, <<G_CD>>, TRUE)

Panel3 == ExtPanel(<<"3">>, <<"A", "a">>, <<G_AB>>, TRUE)

\* a registry as the listing pages it serves, in order; a page that is not ok
\* is one whose request fails, panels being what it would have listed
RegistryDown == <<ListingPage(FALSE, <<Panel1, Panel2>>)>>

RegistryOnePage == <<ListingPage(TRUE, <<Panel1, Panel2>>)>>

RegistryDetailFails ==
    <<ListingPage(TRUE, <<[Panel1 EXCEPT !.detail_ok = FALSE], Panel2>>)>>

RegistryPageFails ==
    <<ListingPage(TRUE, <<Panel1>>), ListingPage(FALSE, <<Panel3>>), ListingPage(TRUE, <<Panel2>>)>>

\* a panel listed on two pages, its detail changed in between
RegistryListsTwice ==
    <<ListingPage(TRUE, <<Panel1>>), ListingPage(TRUE, <<[Panel1 EXCEPT !.genes = <<G_AB>>]>>)>>

UkRegistries ==
    {RegistryDown, RegistryOnePage, RegistryDetailFails, RegistryPageFails, RegistryListsTwice}

AuRegistries == {RegistryDown, <<ListingPage(TRUE, <<Panel2>>)>>}

PanelFile(stem, lines, readable) == [stem |-> stem, lines |-> lines, readable |-> readable]

\* the *.txt files of INTERNAL_PANELS_DIR, in glob order
InternalDirs ==
    { <<>>,
      <<PanelFile(<<"h", "e", "a", "r", "t", "_", "2", "_", "v", "1">>,
                  <<G_AB, <<>>, <<" ", "C", "D">>>>, TRUE)>>,
      <<PanelFile(<<"e", "y", "e">>, <<G_AB>>, FALSE),
        PanelFile(<<"e", "a", "r">>, <<G_CD>>, TRUE)>> }

PanelSelections ==
    { {}, {<<"u", "k", "_", "1">>}, {<<"u", "k", "_", "2">>, <<"a", "u", "_", "2">>},
      {T_internal \o <<"_", "e", "a", "r">>} }

\* the variables no panel operation touches
PanelFrame ==
    UNCHANGED <<gene_mapping, df, sort_state, active_filters, triggered, variants_file,
                comments_file, sample_index_file, db, comment_modal>>

\* force_update_panels(); prev keeps the manager as it was before the call
CallForceUpdatePanels(internal_files, uk_pages, au_pages, save_ok) ==
    LET r == update_all_panels(panel_manager, panel_files, internal_files, uk_pages,
                               au_pages, clock, save_ok)
    IN  /\ op' = "force_update_panels"
        /\ params' = [internal_files |-> internal_files, uk_pages |-> uk_pages,
                      au_pages |-> au_pages]
        /\ out' = TRUE
        /\ prev' = panel_manager
        /\ panel_manager' = r.pm
        /\ panel_files' = r.files
        /\ UNCHANGED clock
        /\ PanelFrame

\* update_panels_if_needed(): out tells whether the refresh ran
CallUpdatePanelsIfNeeded(internal_files, uk_pages, au_pages, save_ok) ==
    LET r == update_all_panels(panel_manager, panel_files, internal_files, uk_pages,
                               au_pages, clock, save_ok)
        needed == should_update(panel_manager, clock)
    IN  /\ op' = "update_panels_if_needed"
        /\ params' = [internal_files |-> internal_files, uk_pages |-> uk_pages,
                      au_pages |-> au_pages]
        /\ out' = needed
        /\ prev' = panel_manager
        /\ panel_manager' = IF needed THEN r.pm ELSE panel_manager
        /\ panel_files' = IF needed THEN r.files ELSE panel_files
        /\ UNCHANGED clock
        /\ PanelFrame

\* get_available_panels()
CallGetAvailablePanels ==
    /\ op' = "get_available_panels"
    /\ params' = NoParams
    /\ out' \in get_available_panels(panel_manager)
    /\ prev' = <<>>
    /\ UNCHANGED <<panel_manager, panel_files, clock>>
    /\ PanelFrame

\* get_genes_for_panels(panel_ids)
CallGetGenesForPanels(selected_panels) ==
    /\ op' = "get_genes_for_panels"
    /\ params' = [panel_ids |-> selected_panels]
    /\ out' = get_genes_for_panels(panel_manager, selected_panels)
    /\ prev' = <<>>
    /\ UNCHANGED <<panel_manager, panel_files, clock>>
    /\ PanelFrame

\* the panel manager from a start without cached panels, refreshed at start-up
\* and on the update button, queried in between
InitRefresh ==
    /\ gene_mapping = <<>>
    /\ df = <<>>
    /\ params = NoParams
    /\ out = <<>>
    /\ prev = <<>>
    /\ op = "init"
    /\ IdleUI
    /\ IdleStore

NextRefresh ==
    \/ \E internal_files \in InternalDirs, uk_pages \in UkRegistries,
          au_pages \in AuRegistries :
          CallForceUpdatePanels(internal_files, uk_pages, au_pages, TRUE)
    \/ \E uk_pages \in {RegistryDown, RegistryOnePage}, au_pages \in AuRegistries :
          CallUpdatePanelsIfNeeded(<<>>, uk_pages, au_pages, TRUE)
    \/ CallGetAvailablePanels
    \/ \E selected_panels \in PanelSelections : CallGetGenesForPanels(selected_panels)
    \/ Tick

SpecRefresh == InitRefresh /\ [][NextRefresh]_vars

---------------------------------------------------------------------------
(* Properties of the panel manager *)

\* the source and the panel name an option of get_available_panels shows
OptionSource(o) ==
    IF o.label[1] = "flag_uk" THEN T_panelapp_uk
    ELSE IF o.label[1] = "flag_au" THEN T_panelapp_au
    ELSE T_internal

OptionName(o) == SubSeq(o.label, 3, Len(o.label))

\* the options stand in the order of source, then panel name
OptionsOrdered(options) ==
    \A i, j \in 1..Len(options) :
        i < j => ~PanelBefore([source |-> OptionSource(options[j]),
                               panel_name |-> OptionName(options[j])],
                              [source |-> OptionSource(options[i]),
                               panel_name |-> OptionName(options[i])])

\* no panel id is the value of two options
OnePerPanelId(options) ==
    \A i, j \in 1..Len(options) : options[i].value = options[j].value => i = j

\* C23: get_available_panels returns at most one entry per panel id, for every
\* cached panel dataset, and the entries are ordered by source and then by
\* panel name.
C23_PanelsListedOnce ==
    op = "get_available_panels" => OnePerPanelId(out) /\ OptionsOrdered(out)

\* the entries of every internal file that can be read and of every panel
\* whose listing page and detail request succeed, in the refresh of params
EntriesOfAllThatSucceeded ==
    load_internal_panels_to_list(params.internal_files)
    \o FetchPages_SkipFailedPage(params.uk_pages, <<"u", "k", "_">>, T_panelapp_uk)
    \o FetchPages_SkipFailedPage(params.au_pages, <<"a", "u", "_">>, T_panelapp_au)

\* C24: in a panel refresh a failure while fetching one panel's detail or one
\* listing page removes only that panel's or that page's entries from the new
\* dataset: every other panel and page of both registries, and the local
\* panels, still contribute.
C24_FailureCostsOnlyItsOwnEntries ==
    op = "force_update_panels" =>
        Range(EntriesOfAllThatSucceeded) \subseteq Range(panel_manager.panels_df)

\* the same, for refreshes in which no listing page fails before the last one
C24_DetailFailureCostsOnlyItsPanel ==
    ( /\ op = "force_update_panels"
      /\ \A i \in 1..(Len(params.uk_pages) - 1) : params.uk_pages[i].ok
      /\ \A i \in 1..(Len(params.au_pages) - 1) : params.au_pages[i].ok )
    => Range(EntriesOfAllThatSucceeded) \subseteq Range(panel_manager.panels_df)

\* the refresh of params ran and the first listing request of the registry failed
RefreshRan ==
    \/ op = "force_update_panels"
    \/ op = "update_panels_if_needed" /\ out = TRUE

\* the rows of a frame that come from one source
EntriesOfSource(panels_df, source) ==
    {panels_df[i] : i \in {k \in 1..Len(panels_df) : panels_df[k].source = source}}

\* C29: a panel refresh does not remove from the cache the panels of a
\* registry from which it obtained no data: when the fetch of an external
\* registry fails, the entries cached for it before are still there after the
\* refresh, and the last-update time that suppresses the next refresh is not
\* advanced.
C29_FailedRegistryKeepsItsPanels ==
    /\ (RefreshRan /\ ~params.uk_pages[1].ok) =>
          /\ EntriesOfSource(prev.panels_df, T_panelapp_uk)
                \subseteq Range(panel_manager.panels_df)
          /\ panel_manager.metadata.last_update = prev.metadata.last_update
    /\ (RefreshRan /\ ~params.au_pages[1].ok) =>
          /\ EntriesOfSource(prev.panels_df, T_panelapp_au)
                \subseteq Range(panel_manager.panels_df)
          /\ panel_manager.metadata.last_update = prev.metadata.last_update

---------------------------------------------------------------------------
(* Properties of the preset buttons *)

\* C27: a click on preset p flips whether p is active and leaves every other
\* preset as it was, so that a second click on p restores the previous active
\* set; the stored active set never holds a preset with a false value.
C27_PresetClickFlipsOnlyItself ==
    [][ (triggered'.callback = "handle_preset_filters" /\ triggered'.clicked) =>
           LET p == triggered'.id
           IN  /\ Get(active_filters', p) <=> ~Get(active_filters, p)
               /\ \A q \in PresetIds \ {p} :
                     Get(active_filters', q) <=> Get(active_filters, q)
               /\ \A k \in DOMAIN active_filters' : active_filters'[k] = TRUE
               /\ handle_preset_filters(p, active_filters') = active_filters ]_vars

\* all four presets are active at once
C27_Witness ==
    /\ triggered.callback = "handle_preset_filters"
    /\ triggered.clicked
    /\ DOMAIN active_filters = PresetIds

---------------------------------------------------------------------------
(* The display handler update_variants_display_optimized (src/main.py) *)

\* create_variant_count_display(count, total_count, sample_count)
create_variant_count_display(count, total_count, sample_count) ==
    [count |-> count, total_count |-> total_count, sample_count |-> sample_count]

\* the handler with the load done before the selection is looked at
update_variants_display_LoadsFirst(selected_samples, panel_genes, filters, state, variants, comments) ==
    LET loaded == load_variants_lazy(variants, comments, selected_samples, {},
                                     IntLimit(MAX_LOAD_LIMIT))
    IN  IF selected_samples = {}
        THEN [display |-> "no_selection",
              count |-> create_variant_count_display(0, 0, 0),
              filtered_variants |-> <<>>,
              calls |-> <<"load_variants_lazy">>]
        ELSE IF RowCount(loaded.rows) = 0
        THEN [display |-> "no_variants",
              count |-> create_variant_count_display(0, 0, Cardinality(selected_samples)),
              filtered_variants |-> <<>>,
              calls |-> <<"load_variants_lazy">>]
        ELSE [display |-> "error",
              count |-> create_variant_count_display(0, 0, 0),
              filtered_variants |-> <<>>,
              calls |-> <<"load_variants_lazy">>]

\* update_variants_display_optimized: the three outputs, and the calls made to
\* the database layer.  With rows loaded the handler runs its gene-panel block
\* and then calls apply_filters_optimized, a name no module defines: the
\* NameError (or an error of the panel block before it) goes to the handler's
\* except, whatever the filters, the VAF range and the sort state are.
update_variants_display_optimized(selected_samples, panel_genes, filters, state, variants, comments) ==
    IF selected_samples = {}
    THEN [display |-> "no_selection",
          count |-> create_variant_count_display(0, 0, 0),
          filtered_variants |-> <<>>,
          calls |-> <<>>]
    ELSE LET loaded == load_variants_lazy(variants, comments, selected_samples, {},
                                          IntLimit(MAX_LOAD_LIMIT))
         IN  IF RowCount(loaded.rows) = 0
             THEN [display |-> "no_variants",
                   count |-> create_variant_count_display(0, 0, Cardinality(selected_samples)),
                   filtered_variants |-> <<>>,
                   calls |-> <<"load_variants_lazy">>]
             ELSE [display |-> "error",
                   count |-> create_variant_count_display(0, 0, 0),
                   filtered_variants |-> <<>>,
                   calls |-> <<"load_variants_lazy">>]

\* the handler fires with the stores as they are
CallUpdateVariantsDisplay(selected_samples, panel_genes) ==
    /\ op' = "update_variants_display"
    /\ params' = [selected_samples |-> selected_samples, panel_genes |-> panel_genes]
    /\ out' = update_variants_display_optimized(selected_samples, panel_genes,
                                                active_filters, sort_state,
                                                variants_file, comments_file)
    /\ prev' = <<>>
    /\ UNCHANGED <<gene_mapping, df, sort_state, active_filters, triggered, variants_file,
                   comments_file, sample_index_file, db, clock, panel_manager,
                   panel_files, comment_modal>>

InitDisplay ==
    /\ gene_mapping = <<>>
    /\ df = <<>>
    /\ params = NoParams
    /\ out = <<>>
    /\ prev = <<>>
    /\ op = "init"
    /\ IdleUI
    /\ variants_file \in {NoFile} \cup {StoreFile(rows, 1) : rows \in StoreContents}
    /\ comments_file \in {NoFile, EmptyComments}
    /\ IdleDB

NextDisplay ==
    \/ \E selected_samples \in SUBSET {S1, S2}, panel_genes \in {{}, {<<"1", "2">>}} :
          CallUpdateVariantsDisplay(selected_samples, panel_genes)
    \/ \E filter_id \in {"high_impact", "pathogenic"} : ClickPresetFilter(filter_id)
    \/ \E clicked_column \in {"gene", "position"} : ClickSortHeader(clicked_column)

SpecDisplay == InitDisplay /\ [][NextDisplay]_vars

\* C25: with an empty sample selection the display handler returns the
\* no-selection display, a zero count and an empty cached copy, and makes no
\* call that reads the variants or the comments dataset, whatever the filters,
\* the panel genes and the sort state are.
C25_EmptySelectionShortCircuits ==
    (op = "update_variants_display" /\ params.selected_samples = {}) =>
        /\ out.display = "no_selection"
        /\ out.count = create_variant_count_display(0, 0, 0)
        /\ out.filtered_variants = <<>>
        /\ out.calls = <<>>

\* no sample selected while presets, a sort and panel genes are set and the
\* variants file holds rows
C25_Witness ==
    /\ op = "update_variants_display"
    /\ params.selected_samples = {}
    /\ params.panel_genes # {}
    /\ DOMAIN active_filters # {}
    /\ sort_state.column = "gene"
    /\ variants_file.exists

\* C28: for a non-empty selection whose load returns at least one row the
\* handler finishes on its normal path: it shows the variant table, reports
\* the number of rows that remain and caches at most MAX_DISPLAY_VARIANTS of
\* them; with no filter set these are the first rows of the load.
C28_HandlerFinishesNormally ==
    LET loaded == load_variants_lazy(variants_file, comments_file,
                                     params.selected_samples, {},
                                     IntLimit(MAX_LOAD_LIMIT))
    IN  ( /\ op = "update_variants_display"
          /\ params.selected_samples # {}
          /\ RowCount(loaded.rows) > 0 )
        => /\ out.display = "variant_table"
           /\ out.count.total_count = RowCount(loaded.rows)
           /\ out.count.sample_count = Cardinality(params.selected_samples)
           /\ Len(out.filtered_variants) = Min(out.count.count, MAX_DISPLAY_VARIANTS)
           /\ (params.panel_genes = {} /\ DOMAIN active_filters = {}) =>
                 out.filtered_variants
                    = Take(Expand(loaded.rows), MAX_DISPLAY_VARIANTS)

---------------------------------------------------------------------------
(* The two writers of the store with every outcome of their write *)

InitWrites ==
    /\ gene_mapping = <<>>
    /\ df = <<>>
    /\ params = NoParams
    /\ out = <<>>
    /\ prev = <<>>
    /\ op = "init"
    /\ IdleUI
    /\ variants_file \in {StoreFile(rows, 1) : rows \in StoreContents}
    /\ comments_file \in {NoFile, EmptyComments}
    /\ IdleDB

NextWrites ==
    \/ \E sample_id \in {S1, S2}, write \in WriteOutcomes :
          CallAddVariantComment(<<<<"1">>, 100>>, sample_id, <<"u">>, <<"a">>, write)
    \/ \E variant_key \in StoreKeys, write \in WriteOutcomes :
          CallUpdateVariantReviewStatus(variant_key, S2, T_Reviewed, write)
    \/ CallGetVariantComments(<<<<"1">>, 100>>, S1)
    \/ CallInitParquetDatabase

SpecWrites == InitWrites /\ [][NextWrites]_vars

\* C26: whenever add_variant_comment or update_variant_review_status returns
\* false, the stored comments dataset and the stored variants dataset are what
\* they were before the call.
C26_FailedWriteLeavesStoreUntouched ==
    [][ (op' \in {"add_variant_comment", "update_variant_review_status"} /\ out' = FALSE)
        => /\ comments_file' = comments_file
           /\ variants_file' = variants_file ]_vars

\* the same for the calls that fail before their write has opened the file
C26_RefusedWriteLeavesStoreUntouched ==
    [][ ( /\ op' \in {"add_variant_comment", "update_variant_review_status"}
          /\ out' = FALSE
          /\ comments_file'.exists => comments_file'.readable
          /\ variants_file'.exists => variants_file'.readable )
        => /\ comments_file' = comments_file
           /\ variants_file' = variants_file ]_vars


\* ---------------------------------------------------------------------------
\* The comment dialog (src/main.py 607-679, src/components.py 1236-1265)

\* value="Dr. Current": what the user-name input holds until somebody edits it
DefaultUserName == <<"D", "r", ".", " ", "C", "u", "r", "r", "e", "n", "t">>

\* dcc.Store(id="selected-variant-id") while it holds nothing (None)
NoSelection == <<>>

\* clear_comment_field(n_clicks, comment_value): the value of the text area after
\* the callback (dash.no_update keeps the value)
clear_comment_field(n_clicks, comment_value) ==
    IF n_clicks > 0 /\ comment_value # <<>> THEN <<>> ELSE comment_value

\* handle_comment_modal: trigger is the component that fired, [id |-> ...] with
\* variant and sample for the two kinds of comment button.  Returns is_open and
\* selected-variant-id, the comments file it leaves, whether add_variant_comment
\* was called and what it returned.
handle_comment_modal(trigger, is_open, new_comment, user_name, selected_variant_id, comments, now, write) ==
    LET quiet == [is_open |-> is_open, selected |-> selected_variant_id,
                  comments |-> comments, called |-> FALSE, success |-> FALSE]
    IN  IF trigger.id = "none"
        THEN [quiet EXCEPT !.is_open = FALSE]
        ELSE IF trigger.id \in {"comment-btn", "add-comment-btn"}
        THEN [quiet EXCEPT !.is_open = TRUE,
                           !.selected = <<trigger.variant, trigger.sample>>]
        ELSE IF /\ trigger.id = "add-comment"
                /\ new_comment # <<>>
                /\ user_name # <<>>
                /\ selected_variant_id # NoSelection
        THEN LET r == add_variant_comment(comments, selected_variant_id[1],
                                          selected_variant_id[2], user_name,
                                          new_comment, now, write)
             IN  IF r.ret
                 THEN [is_open |-> FALSE, selected |-> NoSelection,
                       comments |-> r.comments, called |-> TRUE, success |-> TRUE]
                 ELSE [is_open |-> TRUE, selected |-> selected_variant_id,
                       comments |-> r.comments, called |-> TRUE, success |-> FALSE]
        ELSE IF trigger.id = "close-modal"
        THEN [quiet EXCEPT !.is_open = FALSE, !.selected = NoSelection]
        ELSE quiet

\* the variables the dialog's callbacks leave alone
ModalFrame ==
    UNCHANGED <<gene_mapping, df, sort_state, active_filters, triggered,
                panel_manager, panel_files, variants_file, sample_index_file>>

\* the user types into the text area or into the name input
TypeNewComment(text) ==
    /\ comment_modal.is_open
    /\ op' = "type_new_comment"
    /\ params' = [text |-> text]
    /\ comment_modal' = [comment_modal EXCEPT !.comment_text = text]
    /\ UNCHANGED <<out, prev, comments_file, db, clock>>
    /\ ModalFrame

TypeUserName(name) ==
    /\ comment_modal.is_open
    /\ op' = "type_user_name"
    /\ params' = [name |-> name]
    /\ comment_modal' = [comment_modal EXCEPT !.user_name = name]
    /\ UNCHANGED <<out, prev, comments_file, db, clock>>
    /\ ModalFrame

\* a click on the comment button of one variant row: the dialog opens on it and
\* shows the comments get_variant_comments returns
ClickCommentBtn(variant_key, sample_id) ==
    LET r == handle_comment_modal([id |-> "comment-btn", variant |-> variant_key,
                                   sample |-> sample_id],
                                  comment_modal.is_open, comment_modal.comment_text,
                                  comment_modal.user_name, comment_modal.selected,
                                  comments_file, clock, "untouched")
    IN  /\ op' = "click_comment_btn"
        /\ params' = [variant_key |-> variant_key, sample_id |-> sample_id]
        /\ out' \in get_variant_comments(comments_file, variant_key, sample_id)
        /\ prev' = comment_modal
        /\ comment_modal' = [comment_modal EXCEPT !.is_open = r.is_open,
                                                  !.selected = r.selected]
        /\ UNCHANGED <<comments_file, db, clock>>
        /\ ModalFrame

\* a click on "Add Comment": the click fires handle_comment_modal and
\* clear_comment_field, each with the values the inputs held at the click; prev
\* keeps the dialog as it was, out what became of the comment
ClickAddComment(write) ==
    LET r == handle_comment_modal([id |-> "add-comment"],
                                  comment_modal.is_open, comment_modal.comment_text,
                                  comment_modal.user_name, comment_modal.selected,
                                  comments_file, clock, write)
    IN  /\ comment_modal.is_open
        /\ (comments_file.exists /\ comments_file.readable)
               => Len(comments_file.rows) < MaxComments
        /\ op' = "click_add_comment"
        /\ params' = NoParams
        /\ out' = [called |-> r.called, success |-> r.success]
        /\ prev' = comment_modal
        /\ comments_file' = r.comments
        /\ db' = IF r.success THEN invalidate_cache(db) ELSE db
        /\ comment_modal' =
               [comment_modal EXCEPT
                   !.is_open = r.is_open,
                   !.selected = r.selected,
                   !.comment_text = clear_comment_field(1, comment_modal.comment_text)]
        /\ UNCHANGED clock
        /\ ModalFrame

\* a click on "Cancel"
ClickCloseModal ==
    LET r == handle_comment_modal([id |-> "close-modal"],
                                  comment_modal.is_open, comment_modal.comment_text,
                                  comment_modal.user_name, comment_modal.selected,
                                  comments_file, clock, "untouched")
    IN  /\ comment_modal.is_open
        /\ op' = "click_close_modal"
        /\ params' = NoParams
        /\ prev' = comment_modal
        /\ comment_modal' = [comment_modal EXCEPT !.is_open = r.is_open,
                                                  !.selected = r.selected]
        /\ UNCHANGED <<out, comments_file, db, clock>>
        /\ ModalFrame

\* the page is loaded: the layout's values, and the callbacks run once with
\* nothing triggered
LoadPage ==
    LET r == handle_comment_modal([id |-> "none"], FALSE, <<>>, DefaultUserName,
                                  NoSelection, comments_file, clock, "untouched")
    IN  /\ op' = "load_page"
        /\ params' = NoParams
        /\ prev' = comment_modal
        /\ comment_modal' = [is_open |-> r.is_open, selected |-> r.selected,
                             comment_text |-> clear_comment_field(0, <<>>),
                             user_name |-> DefaultUserName]
        /\ UNCHANGED <<out, comments_file, db, clock>>
        /\ ModalFrame

\* time passes while the dialog is in use
ModalTick ==
    /\ clock < MaxClock
    /\ clock' = clock + 1
    /\ op' = "time_passes"
    /\ UNCHANGED <<params, out, prev, comments_file, db, comment_modal>>
    /\ ModalFrame

InitModal ==
    /\ gene_mapping = <<>>
    /\ df = <<>>
    /\ params = NoParams
    /\ out = <<>>
    /\ prev = <<>>
    /\ op = "init"
    /\ IdleUI
    /\ variants_file \in {StoreFile(rows, 1) : rows \in StoreContents}
    /\ comments_file \in {NoFile, EmptyComments}
    /\ sample_index_file = NoFile
    /\ db = NewDB
    /\ clock = 1
    /\ panel_manager = [panels_df |-> <<>>, metadata |-> [last_update |-> 0]]
    /\ panel_files = [panels |-> NoFile, metadata |-> NoFile]
    /\ comment_modal = [is_open |-> FALSE, selected |-> NoSelection,
                        comment_text |-> <<>>, user_name |-> DefaultUserName]

NextModal ==
    \/ \E text \in {<<>>, <<"a">>} : TypeNewComment(text)
    \/ \E name \in {<<>>, DefaultUserName} : TypeUserName(name)
    \/ \E sample_id \in {S1, S2} : ClickCommentBtn(<<<<"1">>, 100>>, sample_id)
    \/ \E write \in WriteOutcomes : ClickAddComment(write)
    \/ ClickCloseModal
    \/ LoadPage
    \/ ModalTick

SpecModal == InitModal /\ [][NextModal]_vars

\* what the dialog held before the click: text, name and selection all present
AllPresent(modal) ==
    /\ modal.comment_text # <<>>
    /\ modal.user_name # <<>>
    /\ modal.selected # NoSelection

\* C30: a click on the add button changes the comments store only when the
\* comment text, the user name and the selected (variant_key, sample_id) are all
\* present; the typed text is cleared only when the comment was stored, and when
\* nothing was stored the dialog stays open with its selection and its typed
\* text as they were.
C30_AddClickClearsOnlyWhatWasStored ==
    [][ op' = "click_add_comment"
        => /\ comments_file' # comments_file => AllPresent(comment_modal)
           /\ comment_modal'.comment_text # comment_modal.comment_text => out'.success
           /\ ~out'.success => /\ comment_modal'.is_open
                               /\ comment_modal'.selected = comment_modal.selected
                               /\ comment_modal'.comment_text
                                      = comment_modal.comment_text ]_vars

\* the part of C30 about the store, the dialog and its selection
C30_AddClickStoresOnlyWhenAllPresent ==
    [][ op' = "click_add_comment"
        => /\ comments_file' # comments_file => AllPresent(comment_modal)
           /\ out'.success => /\ AllPresent(comment_modal)
                              /\ Len(comments_file'.rows) > 0
           /\ ~out'.success => /\ comment_modal'.is_open
                               /\ comment_modal'.selected = comment_modal.selected ]_vars

\* a click on the add button that stored nothing and emptied the text area
C30_UnstoredTextLost ==
    /\ op = "click_add_comment"
    /\ ~out.success
    /\ prev.comment_text # <<>>
    /\ comment_modal.comment_text = <<>>

=============================================================================
